---- MODULE Spec2Model ----
(***************************************************************************)
(* A model of the metrics storage engine of Heidric/metrics:               *)
(*   - the volatile store with its file journal (internal/db, Store),      *)
(*   - the relational store (internal/db, PostgresStore),                  *)
(*   - the retry policy (internal/db, withRetry),                          *)
(*   - the service layer (internal/services, MetricsService).              *)
(* Each part has its own specifications (SpecStore and SpecPeriodic for    *)
(* the volatile store, SpecPG and SpecPGSeq, SpecRetry, SpecService); the  *)
(* variables of the other parts stay at their initial values.              *)
(***************************************************************************)
EXTENDS Integers, Sequences, FiniteSets, TLC

(***************************************************************************)
(* Bounds of the model.                                                    *)
(***************************************************************************)
\* storage-contract calls started on a write-through store in one behaviour
MaxOps == 2
\* storage-contract calls started on a periodic store in one behaviour
MaxPeriodicOps == 2
\* Store values constructed over the same file in one behaviour
MaxStores == 2
\* width of the model's counter integers (stands for the 64 bits of int64)
IntBits == 4
\* calls started on the relational store in one behaviour
MaxPgOps == 2
\* statements, commits and connection attempts that fail in one behaviour
MaxFaults == 4
\* calls a single caller makes one after the other on the relational store
MaxPgSeqOps == 4
\* items in the list passed to the service's UpdateMetricsBatch
MaxBatchLen == 2

(***************************************************************************)
(* Values.                                                                 *)
(***************************************************************************)
IntMod == 2 ^ IntBits
IntHalf == 2 ^ (IntBits - 1)
MaxInt64 == IntHalf - 1
MinInt64 == 0 - IntHalf

\* an addition that stops at the ends of the range
Mut_WrapAdd(x, y) ==
  IF x + y > MaxInt64 THEN MaxInt64 ELSE IF x + y < MinInt64 THEN MinInt64 ELSE x + y
\* Go's int64 addition: the sum reduced modulo 2^w into the signed range.
WrapAdd(x, y) == ((x + y + IntHalf) % IntMod) - IntHalf

\* Metric names the callers use. "xFF" is a name that is not valid UTF-8
\* (a Go string is any byte sequence); "uFFFD" is the name made of the
\* Unicode replacement character.
InvalidName == "xFF"
ReplacementName == "uFFFD"
Names == {"a", InvalidName}
\* The (name, value) pairs callers pass to SetGauge and to SetCounter.
GaugeWrites == {<< "a", 1 >>, << "a", 2 >>, << InvalidName, 1 >>}
CounterWrites == {<< "a", 1 >>, << "a", 2 >>, << InvalidName, 1 >>}

Procs == {"p1", "p2"}
MainProc == "p1"
Worker == "w"
Threads == Procs \cup {Worker}

\* A Go map value: nil, or a map (a function on the keys present).
EmptyFn == [x \in {} |-> 0]
EmptyMap == [nil |-> FALSE, m |-> EmptyFn]
NilMap == [nil |-> TRUE, m |-> EmptyFn]
MapOf(f) == [nil |-> FALSE, m |-> f]
Has(mr, k) == k \in DOMAIN mr.m
\* an assignment that drops every other key
Mut_PutOnly(mr, k, v) == [nil |-> FALSE, m |-> [x \in {k} |-> v]]
\* an assignment that keeps the value of a key already present
Mut_Put(mr, k, v) ==
  IF Has(mr, k) THEN mr
  ELSE [nil |-> FALSE, m |-> [x \in (DOMAIN mr.m) \cup {k} |-> IF x = k THEN v ELSE mr.m[x]]]
\* m[k] = v
Put(mr, k, v) == [nil |-> FALSE,
                  m |-> [x \in (DOMAIN mr.m) \cup {k} |-> IF x = k THEN v ELSE mr.m[x]]]
\* make(map, len) followed by a range copy: never nil, same entries
CopyMap(mr) == [nil |-> FALSE, m |-> mr.m]

\* model.Metrics items of a batch; NULL is a nil *float64 / *int64
NULL == [isNil |-> TRUE, v |-> 0]
Ptr(x) == [isNil |-> FALSE, v |-> x]
GaugeType == "gauge"
CounterType == "counter"
Item(id, mtype, value, delta) == [id |-> id, mtype |-> mtype, value |-> value, delta |-> delta]
\* a nil *model.Metrics
NilMetric == [isNil |-> TRUE, v |-> Item("", "", NULL, NULL)]
Batches ==
  { << Item("a", GaugeType, Ptr(2), NULL), Item("a", CounterType, NULL, Ptr(1)) >>,
    << Item("a", CounterType, NULL, Ptr(2)), Item(InvalidName, "histogram", NULL, NULL) >>,
    << Item("a", GaugeType, NULL, NULL), Item(InvalidName, CounterType, NULL, NULL) >> }

(***************************************************************************)
(* The persistence file and its JSON encoding.                             *)
(***************************************************************************)
\* encoding/json writes a string coerced to valid UTF-8: invalid bytes
\* become U+FFFD.
EncodeName(n) == IF n = InvalidName THEN ReplacementName ELSE n

\* The JSON object written for a map. Keys are written in the order of the
\* original strings, so when two keys encode to the same text the decoder
\* keeps the value of the greater original key, the invalid one.
JSONObject(f) ==
  [e \in {EncodeName(k) : k \in DOMAIN f} |->
      IF e = ReplacementName /\ InvalidName \in DOMAIN f THEN f[InvalidName] ELSE f[e]]

AbsentFile == [kind |-> "absent", gauges |-> NilMap, counters |-> NilMap]
MalformedFile == [kind |-> "malformed", gauges |-> NilMap, counters |-> NilMap]
JSONFile(g, c) == [kind |-> "json", gauges |-> g, counters |-> c]

\* json.Encoder.Encode of struct{Gauges, Counters} built from the two copies
EncodeFile(copyG, copyC) == JSONFile(MapOf(JSONObject(copyG.m)), MapOf(JSONObject(copyC.m)))

\* Files that may exist before the first store is constructed: none, a file
\* that is not JSON, a full file, a file without the "counters" key.
InitialFiles ==
  { AbsentFile, MalformedFile,
    JSONFile(MapOf("a" :> 1), MapOf("a" :> MaxInt64)),
    JSONFile(MapOf("a" :> 2), NilMap) }

(***************************************************************************)
(* State.                                                                  *)
(***************************************************************************)
VARIABLES
  \* volatile store (Store) ------------------------------------------------
  gauges, counters,      \* the two maps
  filePath,              \* "" disables persistence
  storeInterval,         \* 0: write-through, > 0: periodic
  mu,                    \* sync.RWMutex: [writer, readers]
  saveMutex,             \* sync.Mutex: the holder or "none"
  tickerOn,              \* the ticker exists and was not stopped
  closeChanOpen,         \* closeChan not closed yet
  closed,                \* Store.closed
  file,                  \* the content of the file at filePath
  gen,                   \* number of Store values constructed so far
  storeReady,            \* NewStore has returned the current store
  crashed,               \* a goroutine panicked: the process is gone
  pc, op, loc,           \* per goroutine: position, call, locals
  res,                   \* per caller: the result of its last call
  \* history variables of the volatile store --------------------------------
  nOps,                  \* calls started
  applied,               \* per name: sum of SetCounter deltas written
  passed,                \* per name: sum of SetCounter deltas passed in
  tainted,               \* per name: loaded, batch-updated or overflowed
  overlapped,            \* per name: two SetCounter calls ran concurrently
  written,               \* per kind: the names written or loaded so far
  memVer, fileVer,       \* count of map mutations; the count the file reflects
  writeFailed,           \* some file write failed
  fresh,                 \* no call was started on the current store
  fileAtNew,             \* the file when the current construction began
  closeOK, heldAtClose,  \* Close ran with no other call in flight and returned
                         \* nil; the maps when it returned
  \* retry policy (withRetry) ------------------------------------------------
  rPc,                   \* position in withRetry
  rAttempt,              \* the loop variable attempt
  rErr,                  \* the local err
  rRet,                  \* the value withRetry returned
  rPred,                 \* the error kinds the predicate reports retriable
  rCalls,                \* history: the outcome of every run of fn, in order
  rSlept,                \* history: the delays slept, in order
  \* relational store (PostgresStore) ---------------------------------------
  dsn,                   \* "" or a data source name
  pgCallers,             \* the goroutines that call the relational store
  db,                    \* p.db: "nil" or the id of a pool
  connected,             \* p.connected
  pmu,                   \* p.mu (sync.Mutex): the holder or "none"
  closeOnce,             \* p.closeOnce has run its function
  openPools,             \* the pools opened and not closed
  table,                 \* the rows of the metrics table, committed
  ppc, pop, ploc, pres,  \* per caller: position, call, locals, last result
  pgCrashed,             \* a goroutine panicked: the process is gone
  \* history variables of the relational store -------------------------------
  pgOps, faults,         \* calls started; statement and connect failures so far
  okGauges, okCounters,  \* what the calls that returned nil wrote, per name
  \* service layer (MetricsService) -------------------------------------------
  svPc,                  \* position in the service call
  svReq,                 \* the call and its arguments
  svArr,                 \* the array behind the slices metrics and valid
  svI, svK,              \* the index of the range loop; len(valid)
  svCall,                \* the backend call the service is about to make
  svRes,                 \* the result of the last service call
  \* history variables of the service layer ----------------------------------
  svFwd,                 \* the backend calls made by the current service call
  svStored               \* the names the backend has received so far

storeVars == << gauges, counters, filePath, storeInterval, mu, saveMutex, tickerOn,
                closeChanOpen, closed, file, gen, storeReady, crashed, pc, op, loc, res,
                nOps, applied, passed, tainted, overlapped, written, memVer, fileVer,
                writeFailed, fresh, fileAtNew, closeOK, heldAtClose >>

rtVars == << rPc, rAttempt, rErr, rRet, rPred, rCalls, rSlept >>

pgVars == << dsn, pgCallers, db, connected, pmu, closeOnce, openPools, table,
             ppc, pop, ploc, pres, pgCrashed, pgOps, faults, okGauges, okCounters >>

svcVars == << svPc, svReq, svArr, svI, svK, svCall, svRes, svFwd, svStored >>

(***************************************************************************)
(* State of the agent (cmd/agent).                                         *)
(***************************************************************************)
VARIABLES
  agMetrics,             \* a.metrics: the sequence of Metric values
  pollCountDelta,        \* a.pollCountDelta
  agMu,                  \* a.mu (sync.Mutex): the holder or "none"
  stopChanOpen,          \* a.stopChan not closed yet
  agPc,                  \* position of pollMetrics and of reportMetrics
  agBatch,               \* reportMetrics' local batch
  \* history variables of the agent ------------------------------------------
  polls,                 \* polls performed
  reports,               \* report ticks taken
  built,                 \* the batches prepareMetricsForBatch returned, in order
  sent                   \* the requests made: to /updates/ and to /update/

agVars == << agMetrics, pollCountDelta, agMu, stopChanOpen, agPc, agBatch,
             polls, reports, built, sent >>

\* the two goroutines of Agent.Run
Poller == "pollMetrics"
Reporter == "reportMetrics"

\* NewAgent: no metrics, pollCountDelta 0, stopChan open; Run not called
AgentIdle ==
  /\ agMetrics = << >> /\ pollCountDelta = 0 /\ agMu = "none" /\ stopChanOpen = TRUE
  /\ agPc = [g \in {Poller, Reporter} |-> "none"]
  /\ agBatch = << >>
  /\ polls = 0 /\ reports = 0 /\ built = << >>
  /\ sent = [batch |-> 0, single |-> 0]

vars == << storeVars, rtVars, pgVars, svcVars, agVars >>

\* what no step of the service layer changes
svcOther == << storeVars, rtVars, pgVars, agVars >>

\* NewMetricsService(storage): no call made yet
SvcNoReq == [kind |-> "none", name |-> "", value |-> "", metric |-> NilMetric, metrics |-> << >>]
SvcNoCall == [kind |-> "none", name |-> "", val |-> 0, items |-> << >>]
SvcNoRes == [kind |-> "none", err |-> "nil"]
SvcIdle ==
  /\ svPc = "idle" /\ svReq = SvcNoReq /\ svArr = << >> /\ svI = 1 /\ svK = 0
  /\ svCall = SvcNoCall /\ svRes = SvcNoRes /\ svFwd = << >> /\ svStored = {}

(***************************************************************************)
(* Volatile store: helpers.                                                *)
(***************************************************************************)
\* syncMode: storeInterval == 0
SyncMode == storeInterval = 0

MuFree == [writer |-> "none", readers |-> {}]
\* a Lock that does not wait for the writer holding the mutex
Mut_CanLock == mu.readers = {}
\* an RLock that does not wait for the writer holding the mutex
Mut_CanRLock == TRUE
\* sync.RWMutex: Lock waits for no writer and no reader, RLock for no writer
CanLock == mu.writer = "none" /\ mu.readers = {}
CanRLock == mu.writer = "none"

NoOp == [kind |-> "none", name |-> "a", val |-> 0, items |-> << >>]
NoLoc == [current |-> 0, idx |-> 1, copyG |-> EmptyMap, copyC |-> EmptyMap,
          err |-> "nil", loaded |-> AbsentFile, copyVer |-> 0, myVer |-> 0, nApplied |-> 0]
NoRes == [kind |-> "none", err |-> "nil", found |-> FALSE, num |-> 0,
          changed |-> FALSE, inFile |-> FALSE, nApplied |-> 0, flush |-> "none",
          list |-> EmptyFn]

Idle(p) == pc[p] = "idle"
OthersIdle(p) == \A q \in Procs \ {p} : Idle(q)

\* what no step of the volatile store changes: its configuration and the
\* variables of the other two components
cfgVars == << filePath, storeInterval, rtVars, pgVars, svcVars, agVars >>
mapVars == << gauges, counters >>
chanVars == << tickerOn, closeChanOpen, closed >>
lifeVars == << gen, storeReady, fileAtNew >>
sumVars == << applied, passed, tainted, overlapped, written >>
\* no name of either kind was written or loaded
NoneWritten == [gauge |-> {}, counter |-> {}]
fileVars == << file, fileVer, writeFailed >>
retVars == << res, closeOK, heldAtClose >>

\* A Go panic (write to a nil map, close of a closed channel) ends the process.
Panic ==
  /\ crashed' = TRUE
  /\ UNCHANGED << cfgVars, mapVars, chanVars, lifeVars, sumVars, fileVars, retVars,
                  mu, saveMutex, pc, op, loc, nOps, memVer, fresh >>

\* The call of p returns result r.
ReturnFrom(p, r) ==
  /\ pc' = [pc EXCEPT ![p] = "idle"]
  /\ loc' = [loc EXCEPT ![p] = NoLoc]
  /\ res' = [res EXCEPT ![p] = r]
  /\ closeOK' = IF op[p].kind = "Close" THEN closeOK /\ r.err = "nil" ELSE closeOK
  /\ heldAtClose' = IF op[p].kind = "Close" /\ closeOK /\ r.err = "nil"
                    THEN << gauges.m, counters.m >> ELSE heldAtClose

\* The result of p's call, with what the history variables say of it: whether
\* the call changed the maps (myVer: the count of its last mutation), whether
\* the file reflects a state at or after that mutation, and how many items
\* of a batch were applied.
ResultOf(p, err, myVer, nApplied) ==
  [NoRes EXCEPT !.kind = op[p].kind, !.err = err, !.changed = (myVer > 0),
                !.inFile = (fileVer >= myVer), !.nApplied = nApplied]

\* A caller starts a call on the store NewStore returned. Callers are
\* interchangeable goroutines: a call takes the first free slot of Procs.
OpBudget == IF SyncMode THEN MaxOps ELSE MaxPeriodicOps
Begin(p, o, first) ==
  /\ storeReady /\ ~crashed /\ Idle(p) /\ nOps < OpBudget
  /\ p = MainProc \/ ~Idle(MainProc)
  /\ op' = [op EXCEPT ![p] = o]
  /\ pc' = [pc EXCEPT ![p] = first]
  /\ loc' = [loc EXCEPT ![p] = NoLoc]
  /\ res' = [res EXCEPT ![p] = NoRes]
  /\ nOps' = nOps + 1
  /\ fresh' = FALSE
  /\ closeOK' = (o.kind = "Close" /\ OthersIdle(p))
  /\ UNCHANGED << cfgVars, mapVars, chanVars, lifeVars, fileVars, heldAtClose,
                  mu, saveMutex, crashed, memVer, applied, tainted, written >>

\* The tail of SetGauge, SetCounter and UpdateMetricsBatch: flush in sync mode
\* when persistence is configured, else return nil.
Mut_FlushOrReturn(p, myVer, nApplied) ==
  IF filePath # ""
  THEN /\ pc' = [pc EXCEPT ![p] = "save_lock"]
       /\ loc' = [loc EXCEPT ![p].myVer = myVer]
       /\ UNCHANGED retVars
  ELSE ReturnFrom(p, ResultOf(p, "nil", myVer, nApplied))
FlushOrReturn(p, myVer, nApplied) ==
  IF SyncMode /\ filePath # ""
  THEN /\ pc' = [pc EXCEPT ![p] = "save_lock"]
       /\ loc' = [loc EXCEPT ![p].myVer = myVer]
       /\ UNCHANGED retVars
  ELSE ReturnFrom(p, ResultOf(p, "nil", myVer, nApplied))

(***************************************************************************)
(* NewStore and LoadFromFile.                                              *)
(***************************************************************************)
\* NewStore up to the call of LoadFromFile: the struct, the ticker and the
\* periodicSave goroutine.
Construct(p) ==
  /\ gauges' = EmptyMap
  /\ counters' = EmptyMap
  /\ mu' = MuFree
  /\ saveMutex' = "none"
  /\ closeChanOpen' = TRUE
  /\ closed' = FALSE
  /\ tickerOn' = (~SyncMode /\ storeInterval > 0)
  /\ pc' = [pc EXCEPT ![p] = "load_lock",
                      ![Worker] = IF ~SyncMode /\ storeInterval > 0 THEN "select" ELSE "none"]
  /\ op' = [op EXCEPT ![p] = [NoOp EXCEPT !.kind = "NewStore"]]
  /\ loc' = [t \in Threads |-> NoLoc]
  /\ gen' = gen + 1
  /\ storeReady' = FALSE
  /\ fileAtNew' = file
  /\ applied' = [n \in Names |-> 0]
  /\ passed' = [n \in Names |-> 0]
  /\ tainted' = [n \in Names |-> FALSE]
  /\ overlapped' = [n \in Names |-> FALSE]
  /\ written' = NoneWritten
  /\ closeOK' = FALSE
  /\ UNCHANGED << cfgVars, fileVars, res, heldAtClose, crashed, nOps, memVer, fresh >>

\* The program constructs its store.
NewStore(p) ==
  /\ ~crashed /\ gen = 0 /\ p = MainProc
  /\ Construct(p)

\* A later run of the program constructs a store over the same file, after
\* the first store was closed and its goroutines are gone.
Reopen(p) ==
  /\ ~crashed /\ gen > 0 /\ gen < MaxStores /\ p = MainProc
  /\ \A q \in Procs : Idle(q)
  /\ closeOK /\ pc[Worker] \in {"none", "exited"}
  /\ Construct(p)

LoadLock(p) ==
  /\ ~crashed /\ pc[p] = "load_lock" /\ saveMutex = "none"
  /\ saveMutex' = p
  /\ pc' = [pc EXCEPT ![p] = "load_read"]
  /\ UNCHANGED << cfgVars, mapVars, chanVars, lifeVars, sumVars, fileVars, retVars,
                  mu, crashed, op, loc, nOps, memVer, fresh >>

\* The path check, os.Stat, os.Open and the JSON decoding.
LoadRead(p) ==
  /\ ~crashed /\ pc[p] = "load_read"
  /\ IF filePath = "" \/ file.kind = "absent"
     THEN /\ pc' = [pc EXCEPT ![p] = "load_unlock"]
          /\ loc' = [loc EXCEPT ![p].err = "nil"]
     ELSE IF file.kind = "malformed"
     THEN /\ pc' = [pc EXCEPT ![p] = "load_unlock"]
          /\ loc' = [loc EXCEPT ![p].err = "decode"]
     ELSE /\ pc' = [pc EXCEPT ![p] = "load_assign"]
          /\ loc' = [loc EXCEPT ![p].loaded = file]
  /\ UNCHANGED << cfgVars, mapVars, chanVars, lifeVars, sumVars, fileVars, retVars,
                  mu, saveMutex, crashed, op, nOps, memVer, fresh >>

\* s.mu.Lock(); s.gauges = data.Gauges; s.counters = data.Counters; s.mu.Unlock()
LoadAssign(p) ==
  /\ ~crashed /\ pc[p] = "load_assign" /\ CanLock
  /\ gauges' = loc[p].loaded.gauges
  /\ counters' = loc[p].loaded.counters
  /\ tainted' = [n \in Names |-> tainted[n] \/ Has(loc[p].loaded.counters, n)]
  /\ written' = [gauge |-> written.gauge \cup DOMAIN loc[p].loaded.gauges.m,
                  counter |-> written.counter \cup DOMAIN loc[p].loaded.counters.m]
  /\ pc' = [pc EXCEPT ![p] = "load_unlock"]
  /\ UNCHANGED << cfgVars, chanVars, lifeVars, applied, passed, overlapped, fileVars,
                  retVars, mu, saveMutex, crashed, op, loc, nOps, memVer, fresh >>

\* The deferred saveMutex.Unlock(); NewStore logs an error and returns s.
LoadUnlock(p) ==
  /\ ~crashed /\ pc[p] = "load_unlock"
  /\ saveMutex' = "none"
  /\ storeReady' = TRUE
  /\ fresh' = TRUE
  /\ ReturnFrom(p, ResultOf(p, loc[p].err, 0, 0))
  /\ UNCHANGED << cfgVars, mapVars, chanVars, gen, fileAtNew, sumVars, fileVars,
                  mu, crashed, op, nOps, memVer >>

(***************************************************************************)
(* SetGauge.                                                               *)
(***************************************************************************)
CallSetGauge(p) ==
  \E w \in GaugeWrites :
    /\ Begin(p, [NoOp EXCEPT !.kind = "SetGauge", !.name = w[1], !.val = w[2]], "sg_lock")
    /\ UNCHANGED << passed, overlapped >>

SetGaugeLock(p) ==
  /\ ~crashed /\ pc[p] = "sg_lock" /\ CanLock
  /\ mu' = [mu EXCEPT !.writer = p]
  /\ pc' = [pc EXCEPT ![p] = "sg_write"]
  /\ UNCHANGED << cfgVars, mapVars, chanVars, lifeVars, sumVars, fileVars, retVars,
                  saveMutex, crashed, op, loc, nOps, memVer, fresh >>

\* s.gauges[name] = value; s.mu.Unlock(); then the sync-mode flush
SetGaugeWrite(p) ==
  /\ ~crashed /\ pc[p] = "sg_write"
  /\ IF gauges.nil
     THEN Panic
     ELSE /\ gauges' = Put(gauges, op[p].name, op[p].val)
          /\ written' = [written EXCEPT !.gauge = @ \cup {op[p].name}]
          /\ mu' = MuFree
          /\ memVer' = memVer + 1
          /\ FlushOrReturn(p, memVer + 1, 0)
          /\ UNCHANGED << cfgVars, counters, chanVars, lifeVars, applied, passed,
                          tainted, overlapped, fileVars,
                          saveMutex, crashed, op, nOps, fresh >>

(***************************************************************************)
(* SetCounter.                                                             *)
(***************************************************************************)
InSetCounter(q, n) ==
  op[q].kind = "SetCounter" /\ op[q].name = n /\ pc[q] \in {"sc_lock", "sc_read", "sc_write"}

CallSetCounter(p) ==
  \E w \in CounterWrites :
    /\ Begin(p, [NoOp EXCEPT !.kind = "SetCounter", !.name = w[1], !.val = w[2]], "sc_lock")
    /\ passed' = [passed EXCEPT ![w[1]] = @ + w[2]]
    /\ overlapped' = [overlapped EXCEPT ![w[1]] = @ \/ \E q \in Procs \ {p} : InSetCounter(q, w[1])]

SetCounterLock(p) ==
  /\ ~crashed /\ pc[p] = "sc_lock" /\ CanLock
  /\ mu' = [mu EXCEPT !.writer = p]
  /\ pc' = [pc EXCEPT ![p] = "sc_read"]
  /\ UNCHANGED << cfgVars, mapVars, chanVars, lifeVars, sumVars, fileVars, retVars,
                  saveMutex, crashed, op, loc, nOps, memVer, fresh >>

\* a SetCounter that stores the delta instead of adding it
Mut_CounterCurrent(n) == 0
\* current, ok := s.counters[name]; if !ok { current = 0 }
CounterCurrent(n) == IF Has(counters, n) THEN counters.m[n] ELSE 0

SetCounterRead(p) ==
  /\ ~crashed /\ pc[p] = "sc_read"
  /\ loc' = [loc EXCEPT ![p].current = CounterCurrent(op[p].name)]
  /\ pc' = [pc EXCEPT ![p] = "sc_write"]
  /\ UNCHANGED << cfgVars, mapVars, chanVars, lifeVars, sumVars, fileVars, retVars,
                  mu, saveMutex, crashed, op, nOps, memVer, fresh >>

\* s.counters[name] = current + value; s.mu.Unlock(); then the sync-mode flush
SetCounterWrite(p) ==
  /\ ~crashed /\ pc[p] = "sc_write"
  /\ IF counters.nil
     THEN Panic
     ELSE LET n == op[p].name
              new == WrapAdd(loc[p].current, op[p].val)
          IN /\ counters' = Put(counters, n, new)
             /\ mu' = MuFree
             /\ applied' = [applied EXCEPT ![n] = @ + op[p].val]
             /\ tainted' = [tainted EXCEPT ![n] = @ \/ new # loc[p].current + op[p].val]
             /\ written' = [written EXCEPT !.counter = @ \cup {n}]
             /\ memVer' = memVer + 1
             /\ FlushOrReturn(p, memVer + 1, 0)
             /\ UNCHANGED << cfgVars, gauges, chanVars, lifeVars, passed, overlapped,
                             fileVars, saveMutex, crashed, op, nOps, fresh >>

(***************************************************************************)
(* UpdateMetricsBatch.                                                     *)
(***************************************************************************)
CallUpdateMetricsBatch(p) ==
  \E b \in Batches :
    /\ Begin(p, [NoOp EXCEPT !.kind = "UpdateMetricsBatch", !.items = b], "b_lock")
    /\ UNCHANGED << passed, overlapped >>

BatchLock(p) ==
  /\ ~crashed /\ pc[p] = "b_lock" /\ CanLock
  /\ mu' = [mu EXCEPT !.writer = p]
  /\ pc' = [pc EXCEPT ![p] = "b_item"]
  /\ UNCHANGED << cfgVars, mapVars, chanVars, lifeVars, sumVars, fileVars, retVars,
                  saveMutex, crashed, op, loc, nOps, memVer, fresh >>

\* One iteration of the loop over metrics, for the item at loc.idx.
BatchItem(p) ==
  /\ ~crashed /\ pc[p] = "b_item" /\ loc[p].idx <= Len(op[p].items)
  /\ LET m == op[p].items[loc[p].idx]
         skip == /\ loc' = [loc EXCEPT ![p].idx = @ + 1]
                 /\ UNCHANGED << cfgVars, mapVars, chanVars, lifeVars, sumVars, fileVars,
                                 retVars, mu, saveMutex, crashed, pc, op, nOps, memVer, fresh >>
     IN CASE m.mtype = GaugeType ->
               IF m.value.isNil THEN skip
               ELSE IF gauges.nil THEN Panic
               ELSE /\ gauges' = Put(gauges, m.id, m.value.v)
                    /\ written' = [written EXCEPT !.gauge = @ \cup {m.id}]
                    /\ memVer' = memVer + 1
                    /\ loc' = [loc EXCEPT ![p].idx = @ + 1, ![p].myVer = memVer + 1,
                                          ![p].nApplied = @ + 1]
                    /\ UNCHANGED << cfgVars, counters, chanVars, lifeVars, applied, passed,
                                    tainted, overlapped, fileVars,
                                    retVars, mu, saveMutex, crashed, pc, op, nOps, fresh >>
          [] m.mtype = CounterType ->
               IF m.delta.isNil THEN skip
               ELSE IF counters.nil THEN Panic
               ELSE /\ counters' = Put(counters, m.id,
                          WrapAdd(IF Has(counters, m.id) THEN counters.m[m.id] ELSE 0, m.delta.v))
                    /\ tainted' = [tainted EXCEPT ![m.id] = TRUE]
                    /\ written' = [written EXCEPT !.counter = @ \cup {m.id}]
                    /\ memVer' = memVer + 1
                    /\ loc' = [loc EXCEPT ![p].idx = @ + 1, ![p].myVer = memVer + 1,
                                          ![p].nApplied = @ + 1]
                    /\ UNCHANGED << cfgVars, gauges, chanVars, lifeVars, applied, passed,
                                    overlapped, fileVars, retVars, mu, saveMutex, crashed,
                                    pc, op, nOps, fresh >>
          [] OTHER ->
               \* default: s.mu.Unlock(); return unsupported metric type
               /\ mu' = MuFree
               /\ ReturnFrom(p, ResultOf(p, "unsupported", loc[p].myVer, loc[p].nApplied))
               /\ UNCHANGED << cfgVars, mapVars, chanVars, lifeVars, sumVars, fileVars,
                               saveMutex, crashed, op, nOps, memVer, fresh >>

\* After the loop: s.mu.Unlock(); then the sync-mode flush
BatchDone(p) ==
  /\ ~crashed /\ pc[p] = "b_item" /\ loc[p].idx > Len(op[p].items)
  /\ mu' = MuFree
  /\ FlushOrReturn(p, loc[p].myVer, loc[p].nApplied)
  /\ UNCHANGED << cfgVars, mapVars, chanVars, lifeVars, sumVars, fileVars,
                  saveMutex, crashed, op, nOps, memVer, fresh >>

(***************************************************************************)
(* GetGauge, GetCounter, GetAll.                                           *)
(***************************************************************************)
\* a lookup that reports a missing key as the zero value
Mut_Lookup(mr, n) ==
  [err |-> "nil", found |-> TRUE, num |-> IF Has(mr, n) THEN mr.m[n] ELSE 0]

\* value, ok := m[name]: found with the value, or ErrKeyNotFound with 0
Lookup(mr, n) ==
  IF Has(mr, n) THEN [err |-> "nil", found |-> TRUE, num |-> mr.m[n]]
  ELSE [err |-> "ErrKeyNotFound", found |-> FALSE, num |-> 0]

GetGaugeResult(n) == Lookup(gauges, n)
GetCounterResult(n) == Lookup(counters, n)

CallGetGauge(p) ==
  \E n \in Names :
    /\ Begin(p, [NoOp EXCEPT !.kind = "GetGauge", !.name = n], "get_rlock")
    /\ UNCHANGED << passed, overlapped >>

CallGetCounter(p) ==
  \E n \in Names :
    /\ Begin(p, [NoOp EXCEPT !.kind = "GetCounter", !.name = n], "get_rlock")
    /\ UNCHANGED << passed, overlapped >>

GetRLock(p) ==
  /\ ~crashed /\ pc[p] = "get_rlock" /\ CanRLock
  /\ mu' = [mu EXCEPT !.readers = @ \cup {p}]
  /\ pc' = [pc EXCEPT ![p] = "get_read"]
  /\ UNCHANGED << cfgVars, mapVars, chanVars, lifeVars, sumVars, fileVars, retVars,
                  saveMutex, crashed, op, loc, nOps, memVer, fresh >>

GetRead(p) ==
  /\ ~crashed /\ pc[p] = "get_read"
  /\ LET r == IF op[p].kind = "GetGauge" THEN GetGaugeResult(op[p].name)
              ELSE GetCounterResult(op[p].name)
     IN ReturnFrom(p, [ResultOf(p, r.err, 0, 0) EXCEPT !.found = r.found, !.num = r.num])
  /\ mu' = [mu EXCEPT !.readers = @ \ {p}]
  /\ UNCHANGED << cfgVars, mapVars, chanVars, lifeVars, sumVars, fileVars,
                  saveMutex, crashed, op, nOps, memVer, fresh >>

CallGetAll(p) ==
  /\ Begin(p, [NoOp EXCEPT !.kind = "GetAll"], "ga_rlock")
  /\ UNCHANGED << passed, overlapped >>

GetAllRLock(p) ==
  /\ ~crashed /\ pc[p] = "ga_rlock" /\ CanRLock
  /\ mu' = [mu EXCEPT !.readers = @ \cup {p}]
  /\ pc' = [pc EXCEPT ![p] = "ga_gauges"]
  /\ UNCHANGED << cfgVars, mapVars, chanVars, lifeVars, sumVars, fileVars, retVars,
                  saveMutex, crashed, op, loc, nOps, memVer, fresh >>

GetAllCopyGauges(p) ==
  /\ ~crashed /\ pc[p] = "ga_gauges"
  /\ loc' = [loc EXCEPT ![p].copyG = CopyMap(gauges)]
  /\ pc' = [pc EXCEPT ![p] = "ga_counters"]
  /\ UNCHANGED << cfgVars, mapVars, chanVars, lifeVars, sumVars, fileVars, retVars,
                  mu, saveMutex, crashed, op, nOps, memVer, fresh >>

GetAllCopyCounters(p) ==
  /\ ~crashed /\ pc[p] = "ga_counters"
  /\ loc' = [loc EXCEPT ![p].copyC = CopyMap(counters)]
  /\ pc' = [pc EXCEPT ![p] = "ga_return"]
  /\ UNCHANGED << cfgVars, mapVars, chanVars, lifeVars, sumVars, fileVars, retVars,
                  mu, saveMutex, crashed, op, nOps, memVer, fresh >>

\* return gaugesCopy, countersCopy, nil, with the deferred RUnlock
GetAllReturn(p) ==
  /\ ~crashed /\ pc[p] = "ga_return"
  /\ ReturnFrom(p, ResultOf(p, "nil", 0, 0))
  /\ mu' = [mu EXCEPT !.readers = @ \ {p}]
  /\ UNCHANGED << cfgVars, mapVars, chanVars, lifeVars, sumVars, fileVars,
                  saveMutex, crashed, op, nOps, memVer, fresh >>

(***************************************************************************)
(* MetricsService.ListMetrics over the volatile store.                     *)
(***************************************************************************)
\* strconv.FormatFloat(value, 'f', -1, 64) of an integral value and
\* strconv.FormatInt(delta, 10): the decimal digits, with a sign if negative
FormatFloat(v) == ToString(v)
FormatInt(v) == ToString(v)

\* result[name] = ... for every gauge, then result[name] = ... for every
\* counter: one map keyed by the name alone
ListResult(g, c) ==
  [n \in (DOMAIN g) \cup (DOMAIN c) |->
     IF n \in DOMAIN c THEN FormatInt(c[n]) ELSE FormatFloat(g[n])]

\* ListMetrics: m.storage.GetAll(ctx) on the store
CallListMetrics(p) ==
  /\ Begin(p, [NoOp EXCEPT !.kind = "ListMetrics"], "ga_rlock")
  /\ UNCHANGED << passed, overlapped >>

\* GetAll returns its two copies (err is nil) and ListMetrics builds result
ListMetrics(p) ==
  /\ ~crashed /\ pc[p] = "ga_return" /\ op[p].kind = "ListMetrics"
  /\ ReturnFrom(p, [ResultOf(p, "nil", 0, 0)
                      EXCEPT !.list = ListResult(loc[p].copyG.m, loc[p].copyC.m)])
  /\ mu' = [mu EXCEPT !.readers = @ \ {p}]
  /\ UNCHANGED << cfgVars, mapVars, chanVars, lifeVars, sumVars, fileVars,
                  saveMutex, crashed, op, nOps, memVer, fresh >>

(***************************************************************************)
(* Close, saveToFile and the periodicSave goroutine.                       *)
(***************************************************************************)
CallClose(p) ==
  /\ Begin(p, [NoOp EXCEPT !.kind = "Close"], "close_chan")
  /\ UNCHANGED << passed, overlapped >>

\* s.closed = true; close(s.closeChan): closing a closed channel panics
CloseChan(p) ==
  /\ ~crashed /\ pc[p] = "close_chan"
  /\ IF ~closeChanOpen
     THEN Panic
     ELSE /\ closed' = TRUE
          /\ closeChanOpen' = FALSE
          /\ pc' = [pc EXCEPT ![p] = "save_lock"]
          /\ UNCHANGED << cfgVars, mapVars, tickerOn, lifeVars, sumVars, fileVars, retVars,
                          mu, saveMutex, crashed, op, loc, nOps, memVer, fresh >>

\* SaveToFile: s.saveMutex.Lock(); defer s.saveMutex.Unlock(); return s.saveToFile()
CallSaveToFile(p) ==
  /\ Begin(p, [NoOp EXCEPT !.kind = "SaveToFile"], "save_lock")
  /\ UNCHANGED << passed, overlapped >>

\* LoadFromFile called on the store in use
CallLoadFromFile(p) ==
  /\ Begin(p, [NoOp EXCEPT !.kind = "LoadFromFile"], "load_lock")
  /\ UNCHANGED << passed, overlapped >>

\* a Lock of saveMutex that does not wait for its holder
Mut_SaveLock(t) ==
  /\ ~crashed /\ pc[t] = "save_lock"
  /\ saveMutex' = t
  /\ pc' = [pc EXCEPT ![t] = "save_copy"]
  /\ UNCHANGED << cfgVars, mapVars, chanVars, lifeVars, sumVars, fileVars, retVars,
                  mu, crashed, op, loc, nOps, memVer, fresh >>

\* s.saveMutex.Lock() before saveToFile (SetGauge, SetCounter,
\* UpdateMetricsBatch, Close and periodicSave all take it this way)
SaveLock(t) ==
  /\ ~crashed /\ pc[t] = "save_lock" /\ saveMutex = "none"
  /\ saveMutex' = t
  /\ pc' = [pc EXCEPT ![t] = "save_copy"]
  /\ UNCHANGED << cfgVars, mapVars, chanVars, lifeVars, sumVars, fileVars, retVars,
                  mu, crashed, op, loc, nOps, memVer, fresh >>

\* a saveToFile that keeps the read lock while it writes the file
Mut_SaveCopy(t) ==
  /\ ~crashed /\ pc[t] = "save_copy" /\ CanRLock
  /\ loc' = [loc EXCEPT ![t].copyG = CopyMap(gauges), ![t].copyC = CopyMap(counters),
                        ![t].copyVer = memVer]
  /\ mu' = [mu EXCEPT !.readers = @ \cup {t}]
  /\ pc' = [pc EXCEPT ![t] = "save_write"]
  /\ UNCHANGED << cfgVars, mapVars, chanVars, lifeVars, sumVars, fileVars, retVars,
                  saveMutex, crashed, op, nOps, memVer, fresh >>

\* saveToFile up to s.mu.RUnlock(): nothing without a path, else the two
\* copies taken under the read lock
SaveCopy(t) ==
  /\ ~crashed /\ pc[t] = "save_copy"
  /\ IF filePath = ""
     THEN loc' = loc
     ELSE /\ CanRLock
          /\ loc' = [loc EXCEPT ![t].copyG = CopyMap(gauges), ![t].copyC = CopyMap(counters),
                                ![t].copyVer = memVer]
  /\ pc' = [pc EXCEPT ![t] = "save_write"]
  /\ UNCHANGED << cfgVars, mapVars, chanVars, lifeVars, sumVars, fileVars, retVars,
                  mu, saveMutex, crashed, op, nOps, memVer, fresh >>

\* What os.Create and encoder.Encode can do: succeed, fail to create (the
\* file is left as it was), fail to encode (the file was truncated).
WriteOutcomes == {"nil", "create", "encode"}

\* The rest of saveToFile and s.saveMutex.Unlock(): a caller returns
\* saveToFile's error, periodicSave logs it and goes back to its select.
\* `return s.saveToFile()`: the caller's result is saveToFile's error.
Mut_FlushResult(outcome) == "nil"
FlushResult(outcome) == outcome

\* a saveToFile that drops the entries of a map when the write fails
Mut_MapAfterSave(mr, outcome) == IF outcome = "nil" THEN mr ELSE EmptyMap
\* saveToFile works on the copies it took under the read lock: whatever the
\* outcome of the write, it assigns nothing to s.gauges and s.counters
MapAfterSave(mr, outcome) == mr

SaveWriteAs(t, outcome) ==
  /\ ~crashed /\ pc[t] = "save_write"
  /\ outcome \in (IF filePath = "" THEN {"nil"} ELSE WriteOutcomes)
  /\ saveMutex' = "none"
  /\ file' = CASE filePath = "" -> file
               [] outcome = "nil" -> EncodeFile(loc[t].copyG, loc[t].copyC)
               [] outcome = "create" -> file
               [] outcome = "encode" -> MalformedFile
  /\ fileVer' = IF filePath # "" /\ outcome = "nil" THEN loc[t].copyVer ELSE fileVer
  /\ writeFailed' = (writeFailed \/ outcome # "nil")
  /\ IF t = Worker
     THEN /\ pc' = [pc EXCEPT ![t] = "select"]
          /\ loc' = [loc EXCEPT ![t] = NoLoc]
          /\ UNCHANGED retVars
     ELSE ReturnFrom(t, [ResultOf(t, FlushResult(outcome), loc[t].myVer, loc[t].nApplied)
                           EXCEPT !.inFile = (fileVer' >= loc[t].myVer),
                                  !.flush = outcome])
  /\ gauges' = MapAfterSave(gauges, outcome)
  /\ counters' = MapAfterSave(counters, outcome)
  /\ UNCHANGED << cfgVars, chanVars, lifeVars, sumVars,
                  mu, crashed, op, nOps, memVer, fresh >>

SaveWrite(t) == \E outcome \in WriteOutcomes : SaveWriteAs(t, outcome)

\* periodicSave: case <-s.ticker.C
PeriodicTick ==
  /\ ~crashed /\ pc[Worker] = "select" /\ tickerOn
  /\ pc' = [pc EXCEPT ![Worker] = "save_lock"]
  /\ UNCHANGED << cfgVars, mapVars, chanVars, lifeVars, sumVars, fileVars, retVars,
                  mu, saveMutex, crashed, op, loc, nOps, memVer, fresh >>

\* periodicSave: case <-s.closeChan: stop the ticker and return
PeriodicStop ==
  /\ ~crashed /\ pc[Worker] = "select" /\ ~closeChanOpen
  /\ tickerOn' = FALSE
  /\ pc' = [pc EXCEPT ![Worker] = "exited"]
  /\ UNCHANGED << cfgVars, mapVars, closeChanOpen, closed, lifeVars, sumVars, fileVars,
                  retVars, mu, saveMutex, crashed, op, loc, nOps, memVer, fresh >>

(***************************************************************************)
(* The retry policy: withRetry, withPGRetry, isRetriable.                  *)
(***************************************************************************)
\* var retryDelays: the sleeps between attempts, in seconds
retryDelays == << 1, 3, 5 >>

\* An error value: nil, or an error of some kind. run tells the errors of
\* the successive runs of fn apart.
NilErr == [kind |-> "nil", run |-> 0]
Err(k, n) == [kind |-> k, run |-> n]
\* the kinds of error the fn handed to withRetry returns
FnErrKinds == {"e1", "e2"}

\* a loop that stops one attempt early
Mut_LoopCond(attempt) == attempt < Len(retryDelays)
\* for attempt := 0; attempt <= len(retryDelays); attempt++
LoopCond(attempt) == attempt <= Len(retryDelays)
\* a test that skips the sleep before the last attempt
Mut_SleepCond(attempt) == attempt < Len(retryDelays) - 1
\* if attempt < len(retryDelays) { time.Sleep(retryDelays[attempt]) }
SleepCond(attempt) == attempt < Len(retryDelays)
\* early returns that know only success
Mut_ReturnsNow(errKind, retriable) == errKind = "nil"
\* if err == nil { return nil }; if !isRetriable(err) { return err }
ReturnsNow(errKind, retriable) == errKind = "nil" \/ ~retriable

\* isRetriable: a *pgconn.PgError whose code is ConnectionException,
\* ConnectionDoesNotExist or ConnectionFailure. Pg08Conn and Pg08Plain are
\* such errors, with and without the word "connection" in their text.
isRetriable(errKind) == errKind \in {"Pg08Conn", "Pg08Plain"}

rtOther == << storeVars, pgVars, svcVars, agVars >>

\* withRetry(fn, isRetriable) is called: var err error; attempt := 0
RetryCall ==
  /\ rPc = "idle"
  /\ rPc' = "loop"
  /\ rAttempt' = 0
  /\ rErr' = NilErr
  /\ UNCHANGED << rRet, rPred, rCalls, rSlept, rtOther >>

\* the loop condition; after the loop: return err
RetryLoop ==
  /\ rPc = "loop"
  /\ IF LoopCond(rAttempt)
     THEN rPc' = "fn" /\ UNCHANGED rRet
     ELSE rPc' = "done" /\ rRet' = rErr
  /\ UNCHANGED << rAttempt, rErr, rPred, rCalls, rSlept, rtOther >>

\* err = fn(): fn returns nil or an error
RetryFn ==
  /\ rPc = "fn"
  /\ \E e \in {NilErr} \cup {Err(k, Len(rCalls) + 1) : k \in FnErrKinds} :
       /\ rErr' = e
       /\ rCalls' = Append(rCalls, e)
  /\ rPc' = "check"
  /\ UNCHANGED << rAttempt, rRet, rPred, rSlept, rtOther >>

\* the two early returns and the test guarding the sleep
RetryCheck ==
  /\ rPc = "check"
  /\ IF ReturnsNow(rErr.kind, rErr.kind \in rPred)
     THEN rPc' = "done" /\ rRet' = rErr
     ELSE /\ rPc' = IF SleepCond(rAttempt) THEN "sleep" ELSE "incr"
          /\ UNCHANGED rRet
  /\ UNCHANGED << rAttempt, rErr, rPred, rCalls, rSlept, rtOther >>

\* time.Sleep(retryDelays[attempt])
RetrySleep ==
  /\ rPc = "sleep"
  /\ rSlept' = Append(rSlept, retryDelays[rAttempt + 1])
  /\ rPc' = "incr"
  /\ UNCHANGED << rAttempt, rErr, rRet, rPred, rCalls, rtOther >>

\* attempt++
RetryIncr ==
  /\ rPc = "incr"
  /\ rAttempt' = rAttempt + 1
  /\ rPc' = "loop"
  /\ UNCHANGED << rErr, rRet, rPred, rCalls, rSlept, rtOther >>

\* withRetry is not running
RetryIdle ==
  /\ rPc = "idle" /\ rAttempt = 0 /\ rErr = NilErr /\ rRet = NilErr
  /\ rCalls = << >> /\ rSlept = << >>

(***************************************************************************)
(* The relational store: PostgresStore.                                    *)
(***************************************************************************)
\* The calls the callers make on the relational store.
PgGaugeWrites == {<< "a", 1 >>}
PgCounterWrites == {<< "a", 1 >>}
PgBatches ==
  { << Item("a", GaugeType, Ptr(2), NULL), Item("a", CounterType, NULL, Ptr(1)) >>,
    << Item("a", GaugeType, Ptr(3), NULL), Item("a", CounterType, NULL, Ptr(2)),
       Item("b", "histogram", NULL, NULL) >> }
PgNames == {"a", "b"}
PgWrites == {"SetGauge", "SetCounter", "UpdateMetricsBatch"}
PgReads == {"GetGauge", "GetCounter", "GetAll"}

\* Errors a statement, a BeginTx or a Commit can fail with: the sentinel
\* sql.ErrConnDone, a PgError of class 08 whose text has the word
\* "connection", one whose text has not, and any other PgError.
PgFaults == {"ErrConnDone", "Pg08Conn", "Pg08Plain", "PgOther"}
\* Errors sql.Open, PingContext or createTable can fail with.
ConnectErrors == {"Pg08Conn", "PgOther"}

\* SetGauge's test: err == sql.ErrConnDone || err == sql.ErrTxDone ||
\* strings.Contains(strings.ToLower(err.Error()), "connection")
DetectsConnection(errKind) == errKind \in {"ErrConnDone", "ErrTxDone", "Pg08Conn"}

\* The metrics table: the rows of kind gauge (column value) and of kind
\* counter (column delta), by name. A column holds NULL or a number.
EmptyTable == [gauges |-> EmptyFn, counters |-> EmptyFn]
\* SQL addition: NULL when an operand is NULL. The sums of this model stay
\* far inside the range of BIGINT.
SqlAdd(x, y) == IF x.isNil \/ y.isNil THEN NULL ELSE Ptr(x.v + y.v)
\* INSERT ... ON CONFLICT (name, mtype) DO UPDATE SET value = $2
GaugeUpsert(f, n, v) == [x \in (DOMAIN f) \cup {n} |-> IF x = n THEN v ELSE f[x]]
\* INSERT ... ON CONFLICT (name, mtype) DO UPDATE SET delta = metrics.delta + $2
CounterUpsert(f, n, d) ==
  [x \in (DOMAIN f) \cup {n} |->
      IF x # n THEN f[x] ELSE IF n \in DOMAIN f THEN SqlAdd(f[n], d) ELSE d]
\* the statement run for one item of kind gauge or counter
ExecItem(t, m) ==
  IF m.mtype = GaugeType
  THEN [t EXCEPT !.gauges = GaugeUpsert(t.gauges, m.id, m.value)]
  ELSE [t EXCEPT !.counters = CounterUpsert(t.counters, m.id, m.delta)]

\* What the database answers to a statement that reached it: SQLSTATE 22021
\* for a name that is not valid UTF-8 (the column is VARCHAR in a UTF8
\* database), 22003 when delta = metrics.delta + $2 leaves the range of
\* BIGINT, else success.
DataError(t, m) ==
  IF m.id = InvalidName THEN "Pg22021"
  ELSE IF /\ m.mtype = CounterType /\ ~m.delta.isNil
          /\ m.id \in DOMAIN t.counters /\ ~t.counters[m.id].isNil
          /\ t.counters[m.id].v + m.delta.v \notin MinInt64..MaxInt64
  THEN "Pg22003"
  ELSE "nil"
\* the error of a statement: the failure of the connection, else the
\* database's answer
StmtResult(e, t, m) == IF e = "nil" THEN DataError(t, m) ELSE e

\* a rollback that keeps the statements of the transaction
Mut_RollbackTable(tbl, tx) == tx
\* tx.Commit(): the rows the transaction wrote become the table.
CommitTable(tbl, tx) == tx
\* tx.Rollback(), also the one deferred: the table stays as it was.
RollbackTable(tbl, tx) == tbl

\* the nil *sql.DB; pools are numbered from 1
NoPool == 0
\* the handle sql.Open returns: a pool that is not open and that neither
\* p.db nor a handle loaded by a Close in progress names
HandlesInUse == openPools \cup {db} \cup {ploc[q].h : q \in Procs}
NewPool ==
  CHOOSE i \in 1..(Cardinality(HandlesInUse) + 1) :
    /\ i \notin HandlesInUse
    /\ \A j \in 1..(i - 1) : j \in HandlesInUse

PNoOp == [kind |-> "none", items |-> << >>]
PNoLoc == [attempt |-> 0, err |-> "nil", tx |-> EmptyTable, idx |-> 1,
           connAfter |-> FALSE, dbAfter |-> NoPool, h |-> NoPool]
\* what a read returns besides its error: a number, or the two maps
NoVal == [num |-> 0, gauges |-> EmptyFn, counters |-> EmptyFn]
PNoRes == [kind |-> "none", err |-> "nil", runs |-> 0,
           connAfter |-> FALSE, dbNilAfter |-> TRUE, val |-> NoVal]

PIdle(p) == ppc[p] = "idle"
pgOther == << storeVars, rtVars, svcVars, agVars >>
connVars == << db, connected, openPools >>
\* what no step of the relational store changes
pgCfg == << dsn, pgCallers >>
okVars == << okGauges, okCounters >>

\* the counter rows after the items of a call that returned nil
RECURSIVE OkCountersAfter(_, _, _)
OkCountersAfter(f, items, i) ==
  IF i > Len(items) THEN f
  ELSE OkCountersAfter(IF items[i].mtype = CounterType
                       THEN CounterUpsert(f, items[i].id, items[i].delta) ELSE f,
                       items, i + 1)
\* the gauge values written by the items of a call that returned nil
OkGaugesAfter(g, items) ==
  [n \in PgNames |-> g[n] \cup {items[i].value :
       i \in {j \in 1..Len(items) : items[j].mtype = GaugeType /\ items[j].id = n}}]

\* A caller starts a call. Callers are interchangeable goroutines: a call
\* takes the first free slot of Procs.
PgBudget == IF pgCallers = Procs THEN MaxPgOps ELSE MaxPgSeqOps
PgBegin(p, o, first) ==
  /\ ~pgCrashed /\ p \in pgCallers /\ PIdle(p) /\ pgOps < PgBudget
  /\ p = MainProc \/ ~PIdle(MainProc)
  /\ pop' = [pop EXCEPT ![p] = o]
  /\ ppc' = [ppc EXCEPT ![p] = first]
  /\ ploc' = [ploc EXCEPT ![p] = PNoLoc]
  /\ pres' = [pres EXCEPT ![p] = PNoRes]
  /\ pgOps' = pgOps + 1
  /\ UNCHANGED << pgCfg, connVars, pmu, closeOnce, table, pgCrashed, faults, okVars, pgOther >>

\* The call of p returns err (and val, for a read); the history records
\* what a nil return wrote.
PgReturnVal(p, err, val) ==
  /\ ppc' = [ppc EXCEPT ![p] = "idle"]
  /\ ploc' = [ploc EXCEPT ![p] = PNoLoc]
  /\ pres' = [pres EXCEPT ![p] =
        [kind |-> pop[p].kind, err |-> err, runs |-> ploc[p].attempt + 1,
         connAfter |-> ploc[p].connAfter, dbNilAfter |-> (ploc[p].dbAfter = NoPool),
         val |-> val]]
  /\ okCounters' = IF err = "nil" THEN OkCountersAfter(okCounters, pop[p].items, 1)
                   ELSE okCounters
  /\ okGauges' = IF err = "nil" THEN OkGaugesAfter(okGauges, pop[p].items) ELSE okGauges
PgReturn(p, err) == PgReturnVal(p, err, NoVal)

\* A Go panic (a method call through the nil p.db) ends the process.
PgPanic ==
  /\ pgCrashed' = TRUE
  /\ UNCHANGED << pgCfg, connVars, pmu, closeOnce, table, ppc, pop, ploc, pres,
                  pgOps, faults, okVars, pgOther >>

\* what a statement outside a transaction returns on pool d
StmtOutcomes(d) ==
  IF d \notin openPools THEN {"closed"}
  ELSE {"nil"} \cup (IF faults < MaxFaults THEN PgFaults ELSE {})
\* what a statement, or the commit, of a transaction that has begun returns:
\* the transaction keeps its connection when the pool is closed
TxOutcomes == {"nil"} \cup (IF faults < MaxFaults THEN PgFaults ELSE {})
Faulted(e) == IF e \in PgFaults THEN faults + 1 ELSE faults

CallPgSetGauge(p) ==
  \E w \in PgGaugeWrites :
    PgBegin(p, [kind |-> "SetGauge",
                items |-> << Item(w[1], GaugeType, Ptr(w[2]), NULL) >>], "ensure")

CallPgSetCounter(p) ==
  \E w \in PgCounterWrites :
    PgBegin(p, [kind |-> "SetCounter",
                items |-> << Item(w[1], CounterType, NULL, Ptr(w[2])) >>], "ensure")

CallPgUpdateMetricsBatch(p) ==
  \E b \in PgBatches : PgBegin(p, [kind |-> "UpdateMetricsBatch", items |-> b], "ensure")

CallPgClose(p) == PgBegin(p, [kind |-> "Close", items |-> << >>], "close_check")

\* ensureConnected, run under p.mu from Lock to the deferred Unlock: return
\* nil if connected, ErrNotConnected if the dsn is empty, else open a pool,
\* ping, create the table; a failure closes the new pool and is returned.
\* The pools open after an attempt to connect failed: sql.Open returned no
\* pool, or db.Close() closed the pool that the ping or createTable failed on.
Mut_PoolsAfterFailure(pools, d) == pools \cup {d}
PoolsAfterFailure(pools, d) == (pools \cup {d}) \ {d}

ensureConnected(p) ==
  /\ ~pgCrashed /\ ppc[p] = "ensure" /\ pmu = "none"
  /\ IF connected
     THEN /\ ppc' = [ppc EXCEPT ![p] = "lock"]
          /\ UNCHANGED << connVars, ploc, faults >>
     ELSE IF dsn = ""
     THEN /\ ppc' = [ppc EXCEPT ![p] = "after"]
          /\ ploc' = [ploc EXCEPT ![p].err = "ErrNotConnected",
                                  ![p].connAfter = connected, ![p].dbAfter = db]
          /\ UNCHANGED << connVars, faults >>
     ELSE \/ /\ openPools' = openPools \cup {NewPool}
             /\ db' = NewPool
             /\ connected' = TRUE
             /\ ppc' = [ppc EXCEPT ![p] = "lock"]
             /\ UNCHANGED << ploc, faults >>
          \/ /\ faults < MaxFaults
             /\ \E e \in ConnectErrors :
                  ploc' = [ploc EXCEPT ![p].err = e, ![p].connAfter = connected,
                                       ![p].dbAfter = db]
             /\ faults' = faults + 1
             /\ ppc' = [ppc EXCEPT ![p] = "after"]
             /\ openPools' = PoolsAfterFailure(openPools, NewPool)
             /\ UNCHANGED << db, connected >>
  /\ UNCHANGED << pgCfg, pmu, closeOnce, table, pop, pres, pgCrashed, pgOps, okVars, pgOther >>

\* p.mu.Lock() after ensureConnected, in every method but Close
PgLock(p) ==
  /\ ~pgCrashed /\ ppc[p] = "lock" /\ pmu = "none"
  /\ pmu' = p
  /\ ppc' = [ppc EXCEPT ![p] = CASE pop[p].kind = "UpdateMetricsBatch" -> "begin"
                                    [] pop[p].kind = "Ping" -> "ping"
                                    [] pop[p].kind \in PgReads -> "query"
                                    [] OTHER -> "exec"]
  /\ UNCHANGED << pgCfg, connVars, closeOnce, table, pop, ploc, pres, pgCrashed,
                  pgOps, faults, okVars, pgOther >>

\* resetConnection: close and drop the pool, clear the flag
resetConnection ==
  /\ openPools' = openPools \ {db}
  /\ db' = NoPool
  /\ connected' = FALSE

\* SetGauge and SetCounter from p.db.ExecContext to the deferred Unlock.
\* Only SetGauge looks at the error and resets the connection.
PgExec(p) ==
  /\ ~pgCrashed /\ ppc[p] = "exec"
  /\ IF db = NoPool THEN PgPanic
     ELSE /\ \E e0 \in StmtOutcomes(db) : LET e == StmtResult(e0, table, pop[p].items[1]) IN
               /\ table' = IF e = "nil" THEN ExecItem(table, pop[p].items[1]) ELSE table
               /\ faults' = Faulted(e)
               /\ IF pop[p].kind = "SetGauge" /\ e # "nil" /\ DetectsConnection(e)
                  THEN resetConnection
                  ELSE UNCHANGED connVars
               /\ ploc' = [ploc EXCEPT ![p].err = e, ![p].connAfter = connected',
                                       ![p].dbAfter = db']
          /\ pmu' = "none"
          /\ ppc' = [ppc EXCEPT ![p] = "after"]
          /\ UNCHANGED << pgCfg, closeOnce, pop, pres, pgCrashed, pgOps, okVars, pgOther >>

\* UpdateMetricsBatch: p.db.BeginTx
PgBeginTx(p) ==
  /\ ~pgCrashed /\ ppc[p] = "begin"
  /\ IF db = NoPool THEN PgPanic
     ELSE /\ \E e \in StmtOutcomes(db) :
               /\ faults' = Faulted(e)
               /\ IF e = "nil"
                  THEN /\ ploc' = [ploc EXCEPT ![p].tx = table, ![p].idx = 1]
                       /\ ppc' = [ppc EXCEPT ![p] = "item"]
                       /\ UNCHANGED pmu
                  ELSE /\ ploc' = [ploc EXCEPT ![p].err = e, ![p].connAfter = connected,
                                               ![p].dbAfter = db]
                       /\ ppc' = [ppc EXCEPT ![p] = "after"]
                       /\ pmu' = "none"
          /\ UNCHANGED << pgCfg, connVars, closeOnce, table, pop, pres, pgCrashed,
                          pgOps, okVars, pgOther >>

\* One turn of the loop over the items: the statement of a gauge or of a
\* counter inside the transaction, or the return on an unsupported kind. A
\* return rolls the transaction back and unlocks.
PgBatchItem(p) ==
  /\ ~pgCrashed /\ ppc[p] = "item" /\ ploc[p].idx <= Len(pop[p].items)
  /\ LET m == pop[p].items[ploc[p].idx]
         Fail(e) == /\ ploc' = [ploc EXCEPT ![p].err = e, ![p].tx = EmptyTable,
                                            ![p].idx = 1, ![p].connAfter = connected,
                                            ![p].dbAfter = db]
                    /\ table' = RollbackTable(table, ploc[p].tx)
                    /\ ppc' = [ppc EXCEPT ![p] = "after"]
                    /\ pmu' = "none"
     IN IF m.mtype \in {GaugeType, CounterType}
        THEN \E e0 \in TxOutcomes : LET e == StmtResult(e0, ploc[p].tx, m) IN
               /\ faults' = Faulted(e)
               /\ IF e = "nil"
                  THEN /\ ploc' = [ploc EXCEPT ![p].tx = ExecItem(ploc[p].tx, m),
                                               ![p].idx = ploc[p].idx + 1]
                       /\ UNCHANGED << table, ppc, pmu >>
                  ELSE Fail(e)
        ELSE Fail("unsupported") /\ UNCHANGED faults
  /\ UNCHANGED << pgCfg, connVars, closeOnce, pop, pres, pgCrashed, pgOps, okVars, pgOther >>

\* tx.Commit() after the last item, and the deferred Unlock
PgCommit(p) ==
  /\ ~pgCrashed /\ ppc[p] = "item" /\ ploc[p].idx > Len(pop[p].items)
  /\ \E e \in TxOutcomes :
       /\ faults' = Faulted(e)
       /\ table' = IF e = "nil" THEN CommitTable(table, ploc[p].tx)
                   ELSE RollbackTable(table, ploc[p].tx)
       /\ ploc' = [ploc EXCEPT ![p].err = e, ![p].tx = EmptyTable, ![p].idx = 1,
                               ![p].connAfter = connected, ![p].dbAfter = db]
  /\ ppc' = [ppc EXCEPT ![p] = "after"]
  /\ pmu' = "none"
  /\ UNCHANGED << pgCfg, connVars, closeOnce, pop, pres, pgCrashed, pgOps, okVars, pgOther >>

\* withPGRetry after a run of the closure: return nil, return an error that
\* is not retriable, or sleep, count the attempt and run the closure again
\* while the loop condition holds; after the loop return the last error.
withPGRetry(p) ==
  /\ ~pgCrashed /\ ppc[p] = "after" /\ pop[p].kind \in PgWrites
  /\ IF ReturnsNow(ploc[p].err, isRetriable(ploc[p].err))
        \/ ~LoopCond(ploc[p].attempt + 1)
     THEN PgReturn(p, ploc[p].err)
     ELSE /\ ppc' = [ppc EXCEPT ![p] = "ensure"]
          /\ ploc' = [ploc EXCEPT ![p].attempt = ploc[p].attempt + 1]
          /\ UNCHANGED << pres, okVars >>
  /\ UNCHANGED << pgCfg, connVars, pmu, closeOnce, table, pop, pgCrashed, pgOps, faults, pgOther >>

\* Close: if !p.connected { return nil }, read without the mutex
PgCloseCheck(p) ==
  /\ ~pgCrashed /\ ppc[p] = "close_check"
  /\ IF connected
     THEN /\ ppc' = [ppc EXCEPT ![p] = "close_once"]
          /\ UNCHANGED << ploc, pres, okVars >>
     ELSE /\ PgReturn(p, "nil")
  /\ UNCHANGED << pgCfg, connVars, pmu, closeOnce, table, pop, pgCrashed, pgOps, faults, pgOther >>

\* Close: p.closeOnce.Do(func() { err = p.db.Close(); p.connected = false }).
\* Close takes no mutex, so the closure's load of p.db, the pool's Close and
\* the store to p.connected interleave with the other callers' steps. A
\* second caller of Do waits until the function has returned. The handle
\* stays in p.db.
PgCloseOnce(p) ==
  /\ ~pgCrashed /\ ppc[p] = "close_once"
  /\ IF closeOnce
     THEN /\ \A q \in Procs : ppc[q] \notin {"close_db", "close_flag"}
          /\ PgReturn(p, "nil")
          /\ UNCHANGED closeOnce
     ELSE /\ closeOnce' = TRUE
          /\ ploc' = [ploc EXCEPT ![p].h = db]
          /\ ppc' = [ppc EXCEPT ![p] = "close_db"]
          /\ UNCHANGED << pres, okVars >>
  /\ UNCHANGED << pgCfg, connVars, pmu, table, pop, pgCrashed, pgOps, faults, pgOther >>

\* err = p.db.Close(), on the handle that was loaded: a nil handle panics
PgCloseDb(p) ==
  /\ ~pgCrashed /\ ppc[p] = "close_db"
  /\ IF ploc[p].h = NoPool
     THEN /\ pgCrashed' = TRUE
          /\ UNCHANGED << openPools, ppc >>
     ELSE /\ openPools' = openPools \ {ploc[p].h}
          /\ ppc' = [ppc EXCEPT ![p] = "close_flag"]
          /\ UNCHANGED pgCrashed
  /\ UNCHANGED << pgCfg, db, connected, pmu, closeOnce, table, pop, ploc, pres,
                  pgOps, faults, okVars, pgOther >>

\* p.connected = false, and Close returns err
PgCloseFlag(p) ==
  /\ ~pgCrashed /\ ppc[p] = "close_flag"
  /\ connected' = FALSE
  /\ PgReturn(p, "nil")
  /\ UNCHANGED << pgCfg, db, openPools, pmu, closeOnce, table, pop, pgCrashed,
                  pgOps, faults, pgOther >>

CallPgPing(p) == PgBegin(p, [kind |-> "Ping", items |-> << >>], "ensure")

\* Ping after ensureConnected: ErrNotConnected when ensureConnected failed;
\* else, under p.mu, ErrNotConnected if !p.connected, else p.db.PingContext.
PgPing(p) ==
  /\ ~pgCrashed /\ pop[p].kind = "Ping"
  /\ \/ /\ ppc[p] = "after"
        /\ PgReturn(p, "ErrNotConnected")
        /\ UNCHANGED << pmu, faults, pgCrashed >>
     \/ /\ ppc[p] = "ping"
        /\ IF ~connected
           THEN /\ PgReturn(p, "ErrNotConnected")
                /\ pmu' = "none"
                /\ UNCHANGED << faults, pgCrashed >>
           ELSE IF db = NoPool
           THEN /\ pgCrashed' = TRUE
                /\ UNCHANGED << pmu, faults, ppc, ploc, pres, okVars >>
           ELSE /\ \E e \in StmtOutcomes(db) :
                     /\ faults' = Faulted(e)
                     /\ PgReturn(p, e)
                /\ pmu' = "none"
                /\ UNCHANGED pgCrashed
  /\ UNCHANGED << pgCfg, connVars, closeOnce, table, pop, pgOps, pgOther >>

\* GetGauge(name), GetCounter(name) and GetAll are called; a read names the
\* row it asks for by an item of that name and kind.
CallPgRead(p) ==
  \/ \E n \in PgNames, k \in {GaugeType, CounterType} :
       PgBegin(p, [kind |-> IF k = GaugeType THEN "GetGauge" ELSE "GetCounter",
                   items |-> << Item(n, k, NULL, NULL) >>], "ensure")
  \/ PgBegin(p, [kind |-> "GetAll", items |-> << >>], "ensure")

\* What a read returns from the rows t. GetGauge and GetCounter: the column
\* of the row, ErrKeyNotFound for sql.ErrNoRows, the Scan error for a NULL
\* column. GetAll: the rows whose column is not NULL, by kind.
NonNull(f) == [n \in {x \in DOMAIN f : ~f[x].isNil} |-> f[n].v]
QueryResult(o, t) ==
  IF o.kind = "GetAll"
  THEN [err |-> "nil", val |-> [NoVal EXCEPT !.gauges = NonNull(t.gauges),
                                             !.counters = NonNull(t.counters)]]
  ELSE LET col == IF o.kind = "GetGauge" THEN t.gauges ELSE t.counters
           n == o.items[1].id
       IN IF DataError(t, o.items[1]) # "nil"
          THEN [err |-> DataError(t, o.items[1]), val |-> NoVal]
          ELSE IF n \notin DOMAIN col THEN [err |-> "ErrKeyNotFound", val |-> NoVal]
          ELSE IF col[n].isNil THEN [err |-> "ScanNull", val |-> NoVal]
          ELSE [err |-> "nil", val |-> [NoVal EXCEPT !.num = col[n].v]]

\* A read after ensureConnected: its error when it failed; else, under
\* p.mu, the query on p.db and the deferred Unlock.
PgQuery(p) ==
  /\ ~pgCrashed /\ pop[p].kind \in PgReads
  /\ \/ /\ ppc[p] = "after"
        /\ PgReturn(p, ploc[p].err)
        /\ UNCHANGED << pmu, faults, pgCrashed >>
     \/ /\ ppc[p] = "query"
        /\ IF db = NoPool
           THEN /\ pgCrashed' = TRUE
                /\ UNCHANGED << pmu, faults, ppc, ploc, pres, okVars >>
           ELSE /\ \E e \in StmtOutcomes(db) :
                     /\ faults' = Faulted(e)
                     /\ IF e = "nil"
                        THEN PgReturnVal(p, QueryResult(pop[p], table).err,
                                         QueryResult(pop[p], table).val)
                        ELSE PgReturn(p, e)
                /\ pmu' = "none"
                /\ UNCHANGED pgCrashed
  /\ UNCHANGED << pgCfg, connVars, closeOnce, table, pop, pgOps, pgOther >>

\* NewPostgresStore(dsn): no pool, not connected
PgIdle ==
  /\ db = NoPool /\ connected = FALSE /\ pmu = "none" /\ closeOnce = FALSE
  /\ openPools = {}
  /\ table = EmptyTable
  /\ ppc = [p \in Procs |-> "idle"]
  /\ pop = [p \in Procs |-> PNoOp]
  /\ ploc = [p \in Procs |-> PNoLoc]
  /\ pres = [p \in Procs |-> PNoRes]
  /\ pgCrashed = FALSE /\ pgOps = 0 /\ faults = 0
  /\ okGauges = [n \in PgNames |-> {}] /\ okCounters = EmptyFn

\* the relational store is not used
NoPG == PgIdle /\ dsn = "" /\ pgCallers = {}

(***************************************************************************)
(* The volatile store's specification.                                     *)
(***************************************************************************)
\* no Store was constructed
StoreIdle ==
  /\ gauges = NilMap /\ counters = NilMap
  /\ mu = MuFree /\ saveMutex = "none"
  /\ tickerOn = FALSE /\ closeChanOpen = TRUE /\ closed = FALSE
  /\ gen = 0 /\ storeReady = FALSE /\ crashed = FALSE
  /\ pc = [t \in Threads |-> IF t = Worker THEN "none" ELSE "idle"]
  /\ op = [p \in Procs |-> NoOp]
  /\ loc = [t \in Threads |-> NoLoc]
  /\ res = [p \in Procs |-> NoRes]
  /\ nOps = 0
  /\ applied = [n \in Names |-> 0] /\ passed = [n \in Names |-> 0]
  /\ tainted = [n \in Names |-> FALSE] /\ overlapped = [n \in Names |-> FALSE]
  /\ written = NoneWritten
  /\ memVer = 0 /\ fileVer = 0 /\ writeFailed = FALSE
  /\ fresh = FALSE /\ fileAtNew = AbsentFile
  /\ closeOK = FALSE /\ heldAtClose = << EmptyFn, EmptyFn >>

\* the volatile store is not used
NoStore == StoreIdle /\ filePath = "" /\ storeInterval = 0 /\ file = AbsentFile

InitCommon == StoreIdle /\ RetryIdle /\ rPred = {} /\ NoPG /\ SvcIdle /\ AgentIdle

\* A write-through store (store interval 0), with or without a file.
InitStore ==
  /\ storeInterval = 0
  /\ filePath \in {"", "metrics.json"}
  /\ file \in (IF filePath = "" THEN {AbsentFile} ELSE InitialFiles \ {MalformedFile})
  /\ InitCommon

\* A periodic store (store interval > 0) over a file.
InitPeriodic ==
  /\ storeInterval = 1
  /\ filePath = "metrics.json"
  /\ file \in InitialFiles
  /\ InitCommon

LoadStep(p) ==
  \/ LoadLock(p) \/ LoadRead(p) \/ LoadAssign(p) \/ LoadUnlock(p)

ReaderStep(p) ==
  \/ CallGetGauge(p) \/ CallGetCounter(p) \/ GetRLock(p) \/ GetRead(p)

CallerStep(p) ==
  \/ CallSetGauge(p) \/ SetGaugeLock(p) \/ SetGaugeWrite(p)
  \/ CallSetCounter(p) \/ SetCounterLock(p) \/ SetCounterRead(p) \/ SetCounterWrite(p)
  \/ CallUpdateMetricsBatch(p) \/ BatchLock(p) \/ BatchItem(p) \/ BatchDone(p)
  \/ CallGetAll(p) \/ GetAllRLock(p) \/ GetAllCopyGauges(p)
  \/ GetAllCopyCounters(p) \/ GetAllReturn(p)
  \/ CallClose(p) \/ CloseChan(p)

SaveStep(t) ==
  \/ SaveLock(t) \/ SaveCopy(t) \/ SaveWrite(t)

NextStore ==
  \/ \E p \in Procs : NewStore(p) \/ LoadStep(p) \/ CallerStep(p) \/ SaveStep(p)

NextPeriodic ==
  \/ \E p \in Procs : NewStore(p) \/ Reopen(p) \/ LoadStep(p) \/ CallerStep(p)
  \/ \E t \in Threads : SaveStep(t)
  \/ PeriodicTick
  \/ PeriodicStop

SpecStore == InitStore /\ [][NextStore]_vars

SpecPeriodic == InitPeriodic /\ [][NextPeriodic]_vars

(***************************************************************************)
(* Claims about the volatile store.                                        *)
(***************************************************************************)
AllIdle == \A p \in Procs : Idle(p)
Mutating == {"SetGauge", "SetCounter", "UpdateMetricsBatch"}

C5_HydrationExact ==
  (storeReady /\ fresh /\ filePath # "" /\ fileAtNew.kind = "json") =>
      /\ gauges.m = fileAtNew.gauges.m
      /\ counters.m = fileAtNew.counters.m

\* C6 (as claimed): a store constructed over the file of a store that was
\* closed successfully holds what that store held when it was closed.
C6_RoundTrip ==
  (gen > 1 /\ storeReady /\ fresh /\ filePath # "") =>
      << gauges.m, counters.m >> = heldAtClose

\* C7 (as claimed): in write-through mode with a file, when no file write
\* failed, a mutating call that changed the maps returns only after the file
\* holds a full state taken at or after its change.
C7_WriteThroughFlushed ==
  (SyncMode /\ filePath # "" /\ ~writeFailed) =>
     \A p \in Procs :
       (Idle(p) /\ res[p].kind \in Mutating /\ res[p].changed) => res[p].inFile

\* C8 (as claimed): an UpdateMetricsBatch that returns the unsupported-kind
\* error has applied none of its items.
C8_BatchErrorAppliesNothing ==
  \A p \in Procs :
    (Idle(p) /\ res[p].kind = "UpdateMetricsBatch" /\ res[p].err = "unsupported")
       => res[p].nApplied = 0

\* C10: the copies GetAll returns are the two maps as they are at the
\* instant it returns, and no writer (in particular no batch) is part-way
\* through its update at that instant.
C10_GetAllSnapshot ==
  \A p \in Procs :
    /\ pc[p] = "ga_counters" => loc[p].copyG.m = gauges.m
    /\ pc[p] = "ga_return" =>
         /\ loc[p].copyG.m = gauges.m
         /\ loc[p].copyC.m = counters.m
         /\ \A q \in Procs : pc[q] \notin {"sg_write", "sc_read", "sc_write", "b_item"}

\* a GetAll is about to return non-empty copies while a two-item batch waits
\* for the lock
C10_Witness ==
  \E p, q \in Procs :
    /\ pc[p] = "ga_return" /\ pc[q] = "b_lock" /\ Len(op[q].items) = 2
    /\ DOMAIN loc[p].copyG.m # {}

(***************************************************************************)
(* The retry policy's specification and the claim about it.                *)
(***************************************************************************)
\* One call of withRetry, under each predicate over the error kinds.
InitRetry ==
  /\ RetryIdle
  /\ rPred \in SUBSET FnErrKinds
  /\ NoStore /\ NoPG /\ SvcIdle /\ AgentIdle

NextRetry ==
  \/ RetryCall
  \/ RetryLoop
  \/ RetryFn
  \/ RetryCheck
  \/ RetrySleep
  \/ RetryIncr

\* The goroutine that called withRetry keeps running: fn returns and a
\* sleep ends.
SpecRetry == InitRetry /\ [][NextRetry]_vars /\ WF_vars(NextRetry)

RetryDone == rPc = "done"
Reported(e) == e.kind # "nil" /\ e.kind \in rPred
MaxRuns == Len(retryDelays) + 1

\* C4: withRetry terminates; fn is never run more than 4 times; when every
\* run of fn fails with an error the predicate reports retriable, fn is run
\* exactly 4 times and the error of the 4th run is returned; when the first
\* run fails with an error the predicate reports non-retriable, fn is run
\* exactly once and that error is returned.
C4_RetryTermination ==
  /\ [] (Len(rCalls) <= MaxRuns)
  /\ [] ((RetryDone /\ \A i \in 1..Len(rCalls) : Reported(rCalls[i])) =>
            (Len(rCalls) = MaxRuns /\ rRet = rCalls[MaxRuns]))
  /\ [] ((RetryDone /\ rCalls[1].kind # "nil" /\ ~Reported(rCalls[1])) =>
            (Len(rCalls) = 1 /\ rRet = rCalls[1]))
  /\ <> RetryDone

\* withRetry returned the error of the 4th run after three retriable
\* failures and the sleeps of 1, 3 and 5 seconds
C4_Witness ==
  /\ RetryDone /\ Len(rCalls) = 4 /\ rPred = FnErrKinds
  /\ \A i \in 1..4 : Reported(rCalls[i])
  /\ rRet = rCalls[4] /\ rRet.run = 4
  /\ rSlept = retryDelays

(***************************************************************************)
(* The relational store's specification and the claims about it.           *)
(***************************************************************************)
InitPG ==
  /\ PgIdle
  /\ pgCallers = Procs
  /\ dsn \in {"", "postgres://metrics"}
  /\ NoStore /\ RetryIdle /\ rPred = {} /\ SvcIdle /\ AgentIdle

NextPG ==
  \E p \in Procs :
    \/ CallPgSetGauge(p) \/ CallPgSetCounter(p) \/ CallPgUpdateMetricsBatch(p)
    \/ CallPgClose(p)
    \/ ensureConnected(p) \/ PgLock(p) \/ PgExec(p)
    \/ PgBeginTx(p) \/ PgBatchItem(p) \/ PgCommit(p)
    \/ withPGRetry(p)
    \/ PgCloseCheck(p) \/ PgCloseOnce(p) \/ PgCloseDb(p) \/ PgCloseFlag(p)

SpecPG == InitPG /\ [][NextPG]_vars

\* One caller that makes its calls one after the other, reads and Ping
\* included.
InitPGSeq ==
  /\ PgIdle
  /\ pgCallers = {MainProc}
  /\ dsn \in {"", "postgres://metrics"}
  /\ NoStore /\ RetryIdle /\ rPred = {} /\ SvcIdle /\ AgentIdle

NextPGSeq ==
  \E p \in Procs :
    \/ CallPgSetGauge(p) \/ CallPgSetCounter(p) \/ CallPgUpdateMetricsBatch(p)
    \/ CallPgClose(p) \/ CallPgPing(p) \/ CallPgRead(p)
    \/ ensureConnected(p) \/ PgLock(p) \/ PgExec(p)
    \/ PgBeginTx(p) \/ PgBatchItem(p) \/ PgCommit(p)
    \/ withPGRetry(p)
    \/ PgPing(p) \/ PgQuery(p)
    \/ PgCloseCheck(p) \/ PgCloseOnce(p) \/ PgCloseDb(p) \/ PgCloseFlag(p)

SpecPGSeq == InitPGSeq /\ [][NextPGSeq]_vars

AllPgIdle == \A p \in Procs : PIdle(p)

\* C3 (as claimed): when a write returns an error of the connection class
\* (the errors SetGauge's test recognises), its last attempt left the store
\* Disconnected: flag false and pool handle dropped; a write that returns
\* nil left the store Connected.
C3_ConnectionRecovery ==
  \A p \in Procs :
    (PIdle(p) /\ pres[p].kind \in PgWrites) =>
       /\ DetectsConnection(pres[p].err) => (~pres[p].connAfter /\ pres[p].dbNilAfter)
       /\ pres[p].err = "nil" => pres[p].connAfter

\* C9: once every call has returned, the table holds exactly what the calls
\* that returned nil wrote, each once: the counter rows are the sums of
\* their deltas, and a gauge row exists exactly when one of them wrote it,
\* with a value one of them wrote. Nothing of a batch that returned an error
\* (a failed statement, an unsupported kind, a failed commit) is in the
\* table, and a batch the retry policy re-ran is in it once.
C9_BatchAtomic ==
  (AllPgIdle /\ ~pgCrashed) =>
     /\ table.counters = okCounters
     /\ \A n \in PgNames :
          /\ (n \in DOMAIN table.gauges) <=> (okGauges[n] # {})
          /\ (n \in DOMAIN table.gauges) => table.gauges[n] \in okGauges[n]

\* a batch returned nil on a later run after a retriable failure, a batch
\* with an unsupported item returned its error, and the table holds the
\* first batch only
C9_Witness ==
  /\ AllPgIdle /\ ~pgCrashed
  /\ \E p, q \in Procs :
       /\ pres[p].kind = "UpdateMetricsBatch" /\ pres[p].err = "nil" /\ pres[p].runs >= 2
       /\ pres[q].kind = "UpdateMetricsBatch" /\ pres[q].err = "unsupported"
  /\ table = [gauges |-> ("a" :> Ptr(2)), counters |-> ("a" :> Ptr(1))]

\* C11 (as claimed): a SetGauge that returns an error its own test treats as
\* a connection error (and so resets on) has used the whole retry schedule:
\* the closure ran len(retryDelays)+1 times.
C11_ResetErrorsAreRetried ==
  \A p \in Procs :
    (PIdle(p) /\ pres[p].kind = "SetGauge" /\ DetectsConnection(pres[p].err))
       => pres[p].runs = MaxRuns

\* ---------------------------------------------------------------------------
\* C12 (as claimed): no step of a Ping opens a pool or changes the
\* connected flag or the pool handle: a Ping that finds the store
\* Disconnected leaves it Disconnected.
C12_PingNoSideEffects ==
  [][\A p \in Procs :
       (pop[p].kind = "Ping" /\ ppc[p] # "idle" /\ ppc'[p] # ppc[p])
          => UNCHANGED connVars]_vars

\* C13 (as claimed): when Close returns, the store is Disconnected and no
\* pool is open.
C13_CloseDisconnects ==
  [][\A p \in Procs :
       (pop[p].kind = "Close" /\ ppc[p] # "idle" /\ ppc'[p] = "idle")
          => (~connected' /\ openPools' = {})]_vars

\* C14 (as claimed): a construction that found a malformed file at the
\* configured path fails: it hands no store to the caller.
C14_MalformedFails ==
  (fileAtNew.kind = "malformed") => ~storeReady

(***************************************************************************)
(* The service layer (internal/services, MetricsService) over a storage    *)
(* backend that records the calls it receives.                             *)
(***************************************************************************)
\* the names and the textual values the transport passes to the service
SvcNames == {"", "a"}
ValueStrings == {"1", "1e1", "abc"}

\* strconv.ParseFloat(value, 64) and strconv.ParseInt(value, 10, 64): the
\* number a decimal text denotes ("1e1" is a float only), or an error
Decimal(s) == {i \in MinInt64..MaxInt64 : ToString(i) = s}
ParseFloat(s) ==
  CASE s = "1e1" -> [ok |-> TRUE, v |-> 10]
    [] Decimal(s) # {} -> [ok |-> TRUE, v |-> CHOOSE i \in Decimal(s) : TRUE]
    [] OTHER -> [ok |-> FALSE, v |-> 0]
ParseInt(s) ==
  CASE Decimal(s) # {} -> [ok |-> TRUE, v |-> CHOOSE i \in Decimal(s) : TRUE]
    [] OTHER -> [ok |-> FALSE, v |-> 0]

\* The *model.Metrics values a request carries: nil, or a pointer to an item.
SvcItems ==
  { NilMetric,
    Ptr(Item("a", GaugeType, Ptr(1), NULL)),
    Ptr(Item("b", GaugeType, Ptr(2), NULL)),
    Ptr(Item("a", CounterType, NULL, Ptr(1))),
    Ptr(Item("", GaugeType, Ptr(1), NULL)),
    Ptr(Item("a", "", Ptr(1), NULL)),
    Ptr(Item("a", "histogram", Ptr(1), NULL)),
    Ptr(Item("a", GaugeType, NULL, Ptr(1))),
    Ptr(Item("a", CounterType, Ptr(1), NULL)) }

RECURSIVE SeqsUpTo(_, _)
SeqsUpTo(S, n) ==
  IF n = 0 THEN { << >> }
  ELSE LET shorter == SeqsUpTo(S, n - 1)
       IN shorter \cup { Append(q, x) : q \in {r \in shorter : Len(r) = n - 1}, x \in S }
SvcBatches == SeqsUpTo(SvcItems, MaxBatchLen)

\* a call on the storage contract
BackendCall(kind, name, val, items) ==
  [kind |-> kind, name |-> name, val |-> val, items |-> items]
CallNames(c) ==
  IF c.kind = "UpdateMetricsBatch"
  THEN {c.items[i].v.id : i \in 1..Len(c.items)}
  ELSE {c.name}
BackendErrors == {"nil", "ErrBackend"}

SvcBegin(req, pos) ==
  /\ svPc = "idle"
  /\ svPc' = pos
  /\ svReq' = req
  /\ svArr' = req.metrics
  /\ svI' = 1
  /\ svK' = 0
  /\ svCall' = SvcNoCall
  /\ svFwd' = << >>
  /\ svRes' = SvcNoRes
  /\ UNCHANGED << svStored, svcOther >>

SvcReturn(err) ==
  /\ svPc' = "idle"
  /\ svRes' = [kind |-> svReq.kind, err |-> err]

\* the call returns err before it reaches the backend
SvcReject(err) ==
  /\ SvcReturn(err)
  /\ UNCHANGED << svReq, svArr, svI, svK, svCall, svFwd, svStored, svcOther >>

\* the call goes on to the backend with c
SvcForward(c) ==
  /\ svPc' = "backend"
  /\ svCall' = c
  /\ UNCHANGED << svReq, svArr, svI, svK, svRes, svFwd, svStored, svcOther >>

CallUpdateGauge ==
  \E n \in SvcNames, s \in ValueStrings :
    SvcBegin([SvcNoReq EXCEPT !.kind = "UpdateGauge", !.name = n, !.value = s], "gauge")

UpdateGauge ==
  /\ svPc = "gauge"
  /\ IF ~ParseFloat(svReq.value).ok
     THEN SvcReject("ErrInvalidValue")
     ELSE SvcForward(BackendCall("SetGauge", svReq.name, ParseFloat(svReq.value).v, << >>))

CallUpdateCounter ==
  \E n \in SvcNames, s \in ValueStrings :
    SvcBegin([SvcNoReq EXCEPT !.kind = "UpdateCounter", !.name = n, !.value = s], "counter")

UpdateCounter ==
  /\ svPc = "counter"
  /\ IF ~ParseInt(svReq.value).ok
     THEN SvcReject("ErrInvalidValue")
     ELSE SvcForward(BackendCall("SetCounter", svReq.name, ParseInt(svReq.value).v, << >>))

CallUpdateMetricJSON ==
  \E m \in SvcItems :
    SvcBegin([SvcNoReq EXCEPT !.kind = "UpdateMetricJSON", !.metric = m], "json")

UpdateMetricJSON ==
  /\ svPc = "json"
  /\ LET metric == svReq.metric
     IN IF metric.isNil
        THEN SvcReject("ErrInvalidValue")
        ELSE CASE metric.v.mtype = GaugeType ->
                    IF metric.v.value.isNil
                    THEN SvcReject("ErrInvalidValue")
                    ELSE SvcForward(BackendCall("SetGauge", metric.v.id,
                                                metric.v.value.v, << >>))
               [] metric.v.mtype = CounterType ->
                    IF metric.v.delta.isNil
                    THEN SvcReject("ErrInvalidValue")
                    ELSE SvcForward(BackendCall("SetCounter", metric.v.id,
                                                metric.v.delta.v, << >>))
               [] OTHER -> SvcReject("ErrInvalidType")

CallSvcUpdateMetricsBatch ==
  \E b \in SvcBatches :
    SvcBegin([SvcNoReq EXCEPT !.kind = "UpdateMetricsBatch", !.metrics = b], "filter")

\* The body of UpdateMetricsBatch's loop decides whether metric is appended
\* to valid (TRUE) or skipped by a continue (FALSE).
Mut_Keeps(metric) ==
  IF metric.isNil \/ metric.v.mtype = "" THEN FALSE
  ELSE CASE metric.v.mtype = GaugeType -> ~metric.v.value.isNil
         [] metric.v.mtype = CounterType -> ~metric.v.delta.isNil
         [] OTHER -> FALSE
Keeps(metric) ==
  IF metric.isNil \/ metric.v.id = "" \/ metric.v.mtype = "" THEN FALSE
  ELSE CASE metric.v.mtype = GaugeType -> ~metric.v.value.isNil
         [] metric.v.mtype = CounterType -> ~metric.v.delta.isNil
         [] OTHER -> FALSE

\* One iteration of `for _, metric := range metrics`: the element is read
\* from the array that valid := metrics[:0] shares, and append writes into
\* the same array at len(valid).
SvcFilterItem ==
  /\ svPc = "filter" /\ svI <= Len(svReq.metrics)
  /\ LET metric == svArr[svI]
     IN IF Keeps(metric)
        THEN /\ svArr' = [svArr EXCEPT ![svK + 1] = metric]
             /\ svK' = svK + 1
        ELSE UNCHANGED << svArr, svK >>
  /\ svI' = svI + 1
  /\ UNCHANGED << svPc, svReq, svCall, svRes, svFwd, svStored, svcOther >>

\* After the loop: len(valid) == 0 returns nil, else valid goes to the backend.
SvcFilterDone ==
  /\ svPc = "filter" /\ svI > Len(svReq.metrics)
  /\ IF svK = 0
     THEN SvcReject("nil")
     ELSE SvcForward(BackendCall("UpdateMetricsBatch", "", 0, SubSeq(svArr, 1, svK)))

\* The backend receives the call and answers; the service returns its answer.
SvcBackend ==
  /\ svPc = "backend"
  /\ svFwd' = Append(svFwd, svCall)
  /\ svStored' = svStored \cup CallNames(svCall)
  /\ \E e \in BackendErrors : SvcReturn(e)
  /\ UNCHANGED << svReq, svArr, svI, svK, svCall, svcOther >>

InitService ==
  /\ SvcIdle /\ AgentIdle
  /\ NoStore /\ RetryIdle /\ rPred = {} /\ NoPG

NextService ==
  \/ CallUpdateGauge \/ UpdateGauge
  \/ CallUpdateCounter \/ UpdateCounter
  \/ CallUpdateMetricJSON \/ UpdateMetricJSON
  \/ CallSvcUpdateMetricsBatch \/ SvcFilterItem \/ SvcFilterDone
  \/ SvcBackend

SpecService == InitService /\ [][NextService]_vars

\* C15 (as claimed): no service write path passes an empty name to the
\* backend.
C15_NoEmptyNameStored == "" \notin svStored


\* What the claim calls a valid item: non-nil, with a non-empty name and
\* kind, a recognized kind, and the value (gauge) or delta (counter) that
\* its kind requires.
ValidItem(x) ==
  /\ ~x.isNil
  /\ x.v.id # "" /\ x.v.mtype # ""
  /\ x.v.mtype \in {GaugeType, CounterType}
  /\ (x.v.mtype = GaugeType => ~x.v.value.isNil)
  /\ (x.v.mtype = CounterType => ~x.v.delta.isNil)

\* the service's UpdateMetricsBatch has returned
BatchReturned == svPc = "idle" /\ svRes.kind = "UpdateMetricsBatch"

\* C20: when the service's UpdateMetricsBatch has returned, the backend has
\* received exactly one call with the valid items of the list, in their
\* original order, or, when no item is valid, no call at all and the
\* service has returned success.
C20_BatchForwardsValid ==
  BatchReturned =>
    LET valid == SelectSeq(svReq.metrics, ValidItem)
    IN IF valid = << >>
       THEN svFwd = << >> /\ svRes.err = "nil"
       ELSE svFwd = << BackendCall("UpdateMetricsBatch", "", 0, valid) >>

\* a list with an invalid item before a valid one and another valid one
\* went through: the kept items moved up in the shared array
C20_Witness ==
  /\ BatchReturned
  /\ Len(svReq.metrics) = MaxBatchLen
  /\ ~ValidItem(svReq.metrics[1])
  /\ ValidItem(svReq.metrics[MaxBatchLen])
  /\ Len(svFwd) = 1

(***************************************************************************)
(* A periodic store from its construction on, with a scheduler that lets   *)
(* every goroutine that can take a step take one, a ticker that keeps      *)
(* firing and file writes of periodicSave that do not fail for ever.       *)
(***************************************************************************)
NextTimer ==
  \/ \E p \in Procs : NewStore(p) \/ LoadStep(p) \/ CallerStep(p)
  \/ \E t \in Threads : SaveStep(t)
  \/ PeriodicTick
  \/ PeriodicStop

\* the steps inside a call, as opposed to the start of a call
InCall(p) ==
  \/ SetGaugeLock(p) \/ SetGaugeWrite(p)
  \/ SetCounterLock(p) \/ SetCounterRead(p) \/ SetCounterWrite(p)
  \/ BatchLock(p) \/ BatchItem(p) \/ BatchDone(p)
  \/ GetAllRLock(p) \/ GetAllCopyGauges(p) \/ GetAllCopyCounters(p) \/ GetAllReturn(p)
  \/ CloseChan(p)

FairTimer ==
  /\ \A p \in Procs : WF_vars(LoadStep(p)) /\ WF_vars(InCall(p))
  /\ \A t \in Threads : WF_vars(SaveStep(t))
  /\ WF_vars(PeriodicTick)
  /\ SF_vars(SaveWriteAs(Worker, "nil"))

\* the store starts without a file
InitTimer ==
  /\ storeInterval = 1
  /\ filePath = "metrics.json"
  /\ file = AbsentFile
  /\ InitCommon

SpecTimer == InitTimer /\ [][NextTimer]_vars /\ FairTimer

\* a caller is inside saveToFile or about to call it
Flushing(p) == pc[p] \in {"save_lock", "save_copy", "save_write"}

\* C16: on a periodic store no SetGauge, SetCounter or UpdateMetricsBatch
\* writes the file itself (only Close and periodicSave do), and every update
\* of the maps is eventually in the file, unless the process panicked or
\* Close stopped the timer first.
C16_PeriodicFlush ==
  /\ [](\A p \in Procs : Flushing(p) => op[p].kind = "Close")
  /\ \A v \in 1..(2 * MaxPeriodicOps) :
       (memVer = v) ~> (fileVer >= v \/ crashed \/ ~closeChanOpen)

\* an update was made and the timer's flush wrote it, Close not yet called
C16_Witness ==
  /\ memVer > 0 /\ fileVer = memVer /\ closeChanOpen /\ ~crashed
  /\ pc[Worker] = "select"
  /\ \E p \in Procs : res[p].kind \in {"SetGauge", "SetCounter", "UpdateMetricsBatch"}
                      /\ res[p].changed

\* C17 (as claimed): when a Close that ran with no other call in flight
\* returns nil on a store with a file path, the file holds the gauges and
\* counters that are in memory.
C17_FinalFlush ==
  [][\A p \in Procs :
       (op[p].kind = "Close" /\ ~Idle(p) /\ pc'[p] = "idle" /\ closeOK' /\ filePath # "")
          => /\ file'.kind = "json"
             /\ file'.gauges.m = gauges'.m
             /\ file'.counters.m = counters'.m]_vars

(***************************************************************************)
(* A store in either mode over a path without a file, until it is closed.  *)
(***************************************************************************)
InitFlush ==
  /\ storeInterval \in {0, 1}
  /\ filePath = "metrics.json"
  /\ file = AbsentFile
  /\ InitCommon

SpecFlush == InitFlush /\ [][NextTimer]_vars

FlushErrors == WriteOutcomes \ {"nil"}

\* C18: a caller whose own saveToFile ran (a write-through SetGauge,
\* SetCounter or UpdateMetricsBatch, or Close) returns exactly its outcome;
\* no call returns a flush error that is not its own flush's, so a failure
\* of periodicSave's flush is returned by nobody; and periodicSave leaves
\* its loop only when closeChan is closed, never because a flush failed.
C18_FlushFailureReporting ==
  /\ \A p \in Procs :
       Idle(p) =>
         /\ (res[p].flush # "none" => res[p].err = res[p].flush)
         /\ (res[p].err \in FlushErrors => res[p].flush = res[p].err)
         /\ (res[p].flush # "none" =>
               res[p].kind = "Close" \/
               (SyncMode /\ res[p].kind \in {"SetGauge", "SetCounter", "UpdateMetricsBatch"}))
  /\ (pc[Worker] = "exited" => ~closeChanOpen)

\* periodicSave's flush failed and truncated the file (Close was not called,
\* so the failed write was periodicSave's); the worker is back at its select
\* and a SetGauge that returned afterwards returned nil
C18_Witness ==
  /\ ~SyncMode /\ closeChanOpen /\ ~crashed
  /\ writeFailed /\ file.kind = "malformed"
  /\ pc[Worker] = "select"
  /\ \E p \in Procs : Idle(p) /\ res[p].kind = "SetGauge" /\ res[p].err = "nil"

\* the operations that begin with ensureConnected
PgEnsuring == PgWrites \cup PgReads \cup {"Ping"}

\* C19: a failed ensureConnected leaves the store as it was, Disconnected:
\* connected false, p.db not replaced, no pool left open that was not open
\* before, and its error recorded for the caller; the call returns the
\* error of its last attempt (Ping reports it as ErrNotConnected). With an
\* empty DSN no pool is ever opened and every operation that begins with
\* ensureConnected returns ErrNotConnected after one run.
C19_EnsureConnectedFailure ==
  /\ [][\A p \in Procs :
          /\ (ppc[p] = "ensure" /\ ppc'[p] = "after")
                => /\ ~connected' /\ db' = db /\ openPools' = openPools
                   /\ ploc'[p].err \in ConnectErrors \cup {"ErrNotConnected"}
          /\ (ppc[p] = "after" /\ ppc'[p] = "idle")
                => pres'[p].err = (IF pop[p].kind = "Ping" THEN "ErrNotConnected"
                                   ELSE ploc[p].err)]_vars
  /\ [](dsn = "" =>
          /\ ~connected /\ db = NoPool /\ openPools = {}
          /\ \A p \in Procs :
               (PIdle(p) /\ pres[p].kind \in PgEnsuring)
                  => (pres[p].err = "ErrNotConnected" /\ pres[p].runs = 1))

\* a SetCounter whose attempt to connect failed with an error that is not
\* retriable has returned it after one run; the store is Disconnected with
\* no pool open
C19_Witness ==
  /\ dsn # "" /\ ~connected /\ db = NoPool /\ openPools = {}
  /\ \E p \in Procs :
       /\ PIdle(p) /\ pres[p].kind = "SetCounter"
       /\ pres[p].err = "PgOther" /\ pres[p].runs = 1
  /\ faults = 1

\* ---------------------------------------------------------------------------
\* a run of fn that ends the call: a success or a non-retriable error
Conclusive(e) == e.kind = "nil" \/ ~Reported(e)

\* C25: withRetry runs fn no more after the first conclusive run: a success
\* after k retriable failures makes k+1 runs and returns nil, a
\* non-retriable error at run j makes j runs and returns that error.
C25_StopsAtFirstConclusive ==
  /\ \A j \in 1..Len(rCalls) : Conclusive(rCalls[j]) => j = Len(rCalls)
  /\ \A j \in 1..MaxRuns :
       (RetryDone /\ Len(rCalls) >= j /\ Conclusive(rCalls[j]))
          => (Len(rCalls) = j /\ rRet = rCalls[j])

\* two retriable failures, then a success at the third run
C25_Witness ==
  /\ RetryDone /\ Len(rCalls) = 3
  /\ Reported(rCalls[1]) /\ Reported(rCalls[2]) /\ rCalls[3] = NilErr
  /\ rRet = NilErr

\* C26: the sleeps made so far are the first delays of 1s, 3s, 5s, in that
\* order; run n+1 of fn starts after exactly n sleeps; a sleep follows a
\* run only if that run failed with a retriable error and was not the 4th;
\* when withRetry has returned it has slept once less than it ran fn.
C26_DelaySchedule ==
  /\ Len(rSlept) <= 3 /\ rSlept = SubSeq(<< 1, 3, 5 >>, 1, Len(rSlept))
  /\ Len(rSlept) \in {Len(rCalls) - 1, Len(rCalls)} \cup (IF rCalls = << >> THEN {0} ELSE {})
  /\ rCalls = << >> => rSlept = << >>
  /\ rPc = "fn" => Len(rSlept) = Len(rCalls)
  /\ (rCalls # << >> /\ Len(rSlept) = Len(rCalls))
        => (Reported(rCalls[Len(rCalls)]) /\ Len(rCalls) < 4)
  /\ (RetryDone /\ rCalls # << >>) => Len(rSlept) = Len(rCalls) - 1

\* three retriable failures with the sleeps of 1, 3 and 5 seconds, then a
\* success at the 4th run and no further sleep
C26_Witness ==
  /\ RetryDone /\ Len(rCalls) = 4 /\ rCalls[4] = NilErr /\ rRet = NilErr
  /\ rSlept = << 1, 3, 5 >>

(***************************************************************************)
(* The two backends side by side: one caller makes every call first on a   *)
(* volatile store without a file, then on a relational store over an       *)
(* empty table.                                                            *)
(***************************************************************************)
\* the call on the relational store that corresponds to the call o
PgOpOf(o) ==
  [kind |-> o.kind,
   items |-> CASE o.kind = "SetGauge" -> << Item(o.name, GaugeType, Ptr(o.val), NULL) >>
               [] o.kind = "SetCounter" -> << Item(o.name, CounterType, NULL, Ptr(o.val)) >>
               [] o.kind = "GetGauge" -> << Item(o.name, GaugeType, NULL, NULL) >>
               [] o.kind = "GetCounter" -> << Item(o.name, CounterType, NULL, NULL) >>
               [] o.kind = "UpdateMetricsBatch" -> o.items
               [] OTHER -> << >>]

\* a batch as the service hands it on: every item has a kind and its value
Validated(items) ==
  \A i \in 1..Len(items) :
    \/ items[i].mtype = GaugeType /\ ~items[i].value.isNil
    \/ items[i].mtype = CounterType /\ ~items[i].delta.isNil

\* SetCounter with the largest int64 as delta
CallSetCounterMax(p) ==
  /\ Begin(p, [NoOp EXCEPT !.kind = "SetCounter", !.name = "a", !.val = MaxInt64], "sc_lock")
  /\ passed' = [passed EXCEPT !["a"] = @ + MaxInt64]
  /\ UNCHANGED overlapped

\* the caller's next call, on the volatile store
EqCall(p) ==
  /\ nOps = pgOps /\ PIdle(p)
  /\ \/ CallSetGauge(p) \/ CallSetCounter(p) \/ CallSetCounterMax(p)
     \/ CallUpdateMetricsBatch(p) /\ Validated(op'[p].items)
     \/ CallGetGauge(p) \/ CallGetCounter(p) \/ CallGetAll(p)

\* the same call on the relational store, once the volatile store returned
EqMirror(p) ==
  /\ nOps = pgOps + 1 /\ Idle(p) /\ ~crashed
  /\ PgBegin(p, PgOpOf(op[p]), "ensure")

InitEquiv ==
  /\ StoreIdle /\ storeInterval = 0 /\ filePath = "" /\ file = AbsentFile
  /\ PgIdle /\ dsn = "postgres://metrics" /\ pgCallers = {MainProc}
  /\ RetryIdle /\ rPred = {} /\ SvcIdle /\ AgentIdle

NextEquiv ==
  \/ NewStore(MainProc)
  \/ LoadLock(MainProc) \/ LoadRead(MainProc) \/ LoadUnlock(MainProc)
  \/ EqCall(MainProc) \/ EqMirror(MainProc)
  \/ SetGaugeLock(MainProc) \/ SetGaugeWrite(MainProc)
  \/ SetCounterLock(MainProc) \/ SetCounterRead(MainProc) \/ SetCounterWrite(MainProc)
  \/ BatchLock(MainProc) \/ BatchItem(MainProc) \/ BatchDone(MainProc)
  \/ GetRLock(MainProc) \/ GetRead(MainProc)
  \/ GetAllRLock(MainProc) \/ GetAllCopyGauges(MainProc)
  \/ GetAllCopyCounters(MainProc) \/ GetAllReturn(MainProc)
  \/ ensureConnected(MainProc) \/ PgLock(MainProc) \/ PgExec(MainProc)
  \/ PgBeginTx(MainProc) \/ PgBatchItem(MainProc) \/ PgCommit(MainProc)
  \/ withPGRetry(MainProc) \/ PgQuery(MainProc)

SpecEquiv == InitEquiv /\ [][NextEquiv]_vars

\* both backends have answered the same calls, and nothing failed
EqSettled ==
  /\ storeReady /\ Idle(MainProc) /\ PIdle(MainProc)
  /\ nOps = pgOps /\ nOps > 0
  /\ faults = 0 /\ ~crashed /\ ~pgCrashed

NextRead ==
  \/ \E p \in Procs : NewStore(p) \/ LoadStep(p) \/ CallerStep(p) \/ SaveStep(p)
  \/ \E p \in Procs : ReaderStep(p)

SpecRead == InitStore /\ [][NextRead]_vars

\* the step in which p's GetGauge or GetCounter reads the map and returns
ReadReturns(p, kind) ==
  /\ pc[p] = "get_read" /\ pc'[p] = "idle" /\ op[p].kind = kind

CallReturns(p, kind) ==
  /\ pc[p] # "idle" /\ pc'[p] = "idle" /\ op[p].kind = kind /\ ~crashed'

\* the step in which p assigns the gauge n (SetGauge, or a gauge item of a batch)
GaugeWriteStep(p, n) ==
  \/ pc[p] = "sg_write" /\ op[p].name = n /\ pc'[p] # "sg_write"
  \/ /\ pc[p] = "b_item" /\ loc[p].idx <= Len(op[p].items)
     /\ loc'[p].idx = loc[p].idx + 1
     /\ op[p].items[loc[p].idx].mtype = GaugeType /\ op[p].items[loc[p].idx].id = n

StepOf(p, kind) ==
  /\ op'[p].kind = kind
  /\ pc'[p] # pc[p] \/ loc'[p] # loc[p] \/ res'[p] # res[p]

\* C24: the two kinds are separate namespaces. No step of a SetGauge call
\* changes the counters or any gauge of another name, and no step of a
\* SetCounter call changes the gauges or any counter of another name.
C24_KindsIndependent ==
  [][\A p \in Procs :
       /\ StepOf(p, "SetGauge") =>
            /\ counters' = counters
            /\ \A n \in Names \ {op'[p].name} : Lookup(gauges', n) = Lookup(gauges, n)
       /\ StepOf(p, "SetCounter") =>
            /\ gauges' = gauges
            /\ \A n \in Names \ {op'[p].name} : Lookup(counters', n) = Lookup(counters, n)
  ]_vars

\* SetGauge("a", 2) returned on a store loaded with gauge a = 1 and counter
\* a = MaxInt64: the gauge changed, the counter of the same name did not
C24_Witness ==
  /\ Idle(MainProc) /\ ~crashed /\ nOps = 1
  /\ res[MainProc].kind = "SetGauge" /\ res[MainProc].err = "nil"
  /\ op[MainProc].name = "a" /\ op[MainProc].val = 2
  /\ fileAtNew = JSONFile(MapOf("a" :> 1), MapOf("a" :> MaxInt64))
  /\ gauges.m = ("a" :> 2) /\ counters.m = ("a" :> MaxInt64)


\* C27 (as claimed): whenever a call is about to execute a statement, begin
\* a transaction, ping or query, the pool handle is non-nil and the store is
\* marked connected: no reset or Close by another caller falls between the
\* call's ensureConnected and its use of the pool, and no call panics.
C27_NoUseOfDiscardedPool ==
  /\ ~pgCrashed
  /\ \A p \in Procs :
       ppc[p] \in {"exec", "begin", "ping", "query"}
          => (db # NoPool /\ connected /\ db \in openPools)


(***************************************************************************)
(* Every user of the file side by side: write-through and periodic         *)
(* flushes, SaveToFile, Close and LoadFromFile, in either mode.            *)
(***************************************************************************)
InitFile ==
  /\ storeInterval \in {0, 1}
  /\ filePath = "metrics.json"
  /\ file \in {AbsentFile, JSONFile(MapOf("a" :> 1), MapOf("a" :> MaxInt64))}
  /\ InitCommon

NextFile ==
  \/ \E p \in Procs : NewStore(p) \/ LoadStep(p) \/ CallerStep(p)
  \/ \E p \in Procs : CallSaveToFile(p) \/ CallLoadFromFile(p)
  \/ \E t \in Threads : SaveStep(t)
  \/ PeriodicTick
  \/ PeriodicStop

SpecFile == InitFile /\ [][NextFile]_vars

\* t is between the Lock and the Unlock of saveMutex around saveToFile or
\* in LoadFromFile: it creates, writes or reads the file there
InFileIO(t) == pc[t] \in {"save_copy", "save_write", "load_read", "load_assign", "load_unlock"}

\* C28: file I/O is mutually exclusive. A thread that is in saveToFile (for
\* a write-through flush, a periodic flush, SaveToFile or Close) or in
\* LoadFromFile holds saveMutex, so at most one thread is there at a time.
C28_FileIOExclusive ==
  /\ \A t \in Threads : InFileIO(t) => saveMutex = t
  /\ Cardinality({t \in Threads : InFileIO(t)}) <= 1

\* periodicSave is writing the file while a LoadFromFile and a Close wait
\* for saveMutex
C28_Witness ==
  /\ pc[Worker] = "save_write" /\ saveMutex = Worker
  /\ pc["p1"] = "load_lock" /\ op["p1"].kind = "LoadFromFile"
  /\ pc["p2"] = "save_lock" /\ op["p2"].kind = "Close"


\* t is creating and writing the file, or checking, opening and decoding it
AtFile(t) == pc[t] \in {"save_write", "load_read"}
\* where a thread is while it holds s.mu for writing, and for reading
WriterPcs == {"sg_write", "sc_read", "sc_write", "b_item"}
ReaderPcs == {"get_read", "ga_gauges", "ga_counters", "ga_return"}

\* C29: no thread holds the data lock, for reading or for writing, while it
\* creates, writes or reads the file: the holders of s.mu are inside a map
\* access of SetGauge, SetCounter, UpdateMetricsBatch, GetGauge, GetCounter
\* or GetAll, and saveToFile has released its read lock before it writes.
C29_NoDataLockDuringFileIO ==
  /\ \A t \in Threads : AtFile(t) => (mu.writer # t /\ t \notin mu.readers)
  /\ mu.writer # "none" => pc[mu.writer] \in WriterPcs
  /\ \A t \in mu.readers : pc[t] \in ReaderPcs

\* while periodicSave was writing the file, a SetGauge call made its update
\* and returned: the copy being written is older than the maps
C29_Witness ==
  /\ pc[Worker] = "save_write" /\ loc[Worker].copyVer < memVer
  /\ Idle(MainProc) /\ res[MainProc].kind = "SetGauge" /\ res[MainProc].err = "nil"
  /\ res[MainProc].changed /\ nOps = 1
  /\ gauges.m[op[MainProc].name] = op[MainProc].val


(***************************************************************************)
(* The service's listing over a write-through store.                       *)
(***************************************************************************)
NextList ==
  \E p \in Procs :
    \/ NewStore(p) \/ LoadStep(p)
    \/ CallSetGauge(p) \/ SetGaugeLock(p) \/ SetGaugeWrite(p)
    \/ CallSetCounter(p) \/ SetCounterLock(p) \/ SetCounterRead(p) \/ SetCounterWrite(p)
    \/ CallListMetrics(p) \/ GetAllRLock(p) \/ GetAllCopyGauges(p)
    \/ GetAllCopyCounters(p) \/ ListMetrics(p)
    \/ SaveStep(p)

SpecList == InitStore /\ [][NextList]_vars

\* C30 (as claimed): the map ListMetrics returns has one entry for every
\* metric, a metric being a (name, kind) pair: as many entries as the store
\* has gauges and counters together, a gauge and a counter of one name both
\* among them.
C30_ListOneEntryPerMetric ==
  [][\A p \in Procs :
       (pc[p] = "ga_return" /\ pc'[p] = "idle" /\ op[p].kind = "ListMetrics") =>
          Cardinality(DOMAIN res'[p].list)
             = Cardinality(DOMAIN loc[p].copyG.m) + Cardinality(DOMAIN loc[p].copyC.m)
  ]_vars


(***************************************************************************)
(* Counter updates as the service passes them to the store: any int64      *)
(* that strconv.ParseInt accepts, a negative one included.                 *)
(***************************************************************************)
\* UpdateCounter(name, "-1"): ParseInt accepts it, SetCounter(name, -1) follows
CallSetCounterNeg(p) ==
  /\ Begin(p, [NoOp EXCEPT !.kind = "SetCounter", !.name = "a", !.val = 0 - 1], "sc_lock")
  /\ passed' = [passed EXCEPT !["a"] = @ - 1]
  /\ UNCHANGED overlapped

NextMono ==
  \E p \in Procs :
    \/ NewStore(p) \/ LoadStep(p)
    \/ CallSetCounter(p) \/ CallSetCounterMax(p) \/ CallSetCounterNeg(p)
    \/ SetCounterLock(p) \/ SetCounterRead(p) \/ SetCounterWrite(p)
    \/ CallGetCounter(p) \/ GetRLock(p) \/ GetRead(p)
    \/ SaveStep(p)

SpecMono == InitStore /\ [][NextMono]_vars

\* C31 (as claimed): once the store is in use, the value of a counter never
\* decreases: in every step the value a GetCounter would return is at least
\* the value before the step.
C31_CountersMonotonic ==
  [][\A n \in Names :
       (storeReady /\ Has(counters, n) /\ Has(counters', n))
          => counters'.m[n] >= counters.m[n]]_vars


\* C32 (as claimed): after NewStore and LoadFromFile of a well-formed JSON
\* file both maps are non-nil, so no SetGauge, SetCounter or
\* UpdateMetricsBatch that follows panics on a nil map.
C32_MapsWritableAfterLoad ==
  /\ storeReady => (~gauges.nil /\ ~counters.nil)
  /\ ~crashed


\* C33 (as claimed): in every state of the relational store the connected
\* flag is true exactly when the pool handle is non-nil.
C33_ConnectedIffHandle == connected <=> (db # NoPool)


\* C37 (as claimed): at most one pool opened by the store is open at any
\* time, and a handle that p.db ceases to name has been closed.
C37_SingleOpenPool ==
  /\ Cardinality(openPools) <= 1
  /\ openPools \subseteq {db}


\* a Close call has returned
CloseReturned == \E p \in Procs : op[p].kind = "Close" /\ Idle(p)

\* C34 (as claimed): once Close has returned, periodicSave writes the file
\* no more: no step after that is the end of a flush by the worker.
C34_QuietAfterClose ==
  [][CloseReturned => ~(pc[Worker] = "save_write" /\ pc'[Worker] = "select")]_vars


(***************************************************************************)
(* Deadlock freedom of the volatile store.                                 *)
(***************************************************************************)
\* the next step of the call t is in (for periodicSave: of its flush)
Progress(t) ==
  \/ LoadStep(t) \/ InCall(t) \/ GetRLock(t) \/ GetRead(t) \/ SaveStep(t)

\* t waits at s.saveMutex.Lock()
WaitsForSaveMutex(t) == pc[t] \in {"save_lock", "load_lock"} /\ saveMutex # t

\* a Close was called on a store whose closeChan is already closed
SecondClose == \E p \in Procs : pc[p] = "close_chan" /\ ~closeChanOpen

\* C35: the volatile store does not deadlock. No thread holds the data lock
\* while it waits for saveMutex, and, with at most one Close, whenever a call
\* has not returned yet some thread that is inside a call or a flush can take
\* its next step, so every call returns once its file I/O completes.
C35_DeadlockFreedom ==
  /\ \A t \in Threads :
       WaitsForSaveMutex(t) => (mu.writer # t /\ t \notin mu.readers)
  /\ ((\E p \in Procs : ~Idle(p)) /\ ~SecondClose)
        => \E t \in Threads : ENABLED Progress(t)


(***************************************************************************)
(* A failed flush of a write-through store.                                *)
(***************************************************************************)
\* the SetGauge, SetCounter or UpdateMetricsBatch call of p has returned the
\* error of its flush
FlushFailed(p) ==
  Idle(p) /\ res[p].kind \in Mutating /\ res[p].err \in FlushErrors

\* the batch item m carries the value of its kind
HasValue(m) ==
  \/ m.mtype = GaugeType /\ ~m.value.isNil
  \/ m.mtype = CounterType /\ ~m.delta.isNil

MaxPolls == 2
MaxReports == 3

agOther == << storeVars, rtVars, pgVars, svcVars >>

\* Metric{Name, Type, Value}: the value is kept as text
Metric(name, type, value) == [name |-> name, type |-> type, value |-> value]

\* the slice pollMetrics builds from runtime.MemStats (one of its gauges
\* stands for the 28)
Sampled == << Metric("Alloc", GaugeType, FormatFloat(1)) >>

\* the body of prepareMetricsForBatch's loop: the metric is appended to the
\* batch, or skipped when its value does not parse or its type is unknown
Appended(m) ==
  \/ m.type = GaugeType /\ ParseFloat(m.value).ok
  \/ m.type = CounterType /\ ParseInt(m.value).ok
BatchEntry(m) ==
  IF m.type = GaugeType
  THEN Item(m.name, GaugeType, Ptr(ParseFloat(m.value).v), NULL)
  ELSE Item(m.name, CounterType, NULL, Ptr(ParseInt(m.value).v))
BatchOf(metrics) ==
  LET kept == SelectSeq(metrics, Appended)
  IN [i \in 1..Len(kept) |-> BatchEntry(kept[i])]

\* Agent.Run: go a.pollMetrics(); go a.reportMetrics()
AgentRun ==
  /\ agPc[Poller] = "none" /\ agPc[Reporter] = "none"
  /\ agPc' = [g \in {Poller, Reporter} |-> "select"]
  /\ UNCHANGED << agMetrics, pollCountDelta, agMu, stopChanOpen, agBatch,
                  polls, reports, built, sent, agOther >>

\* Agent.Stop: close(a.stopChan)
AgentStop ==
  /\ agPc[Poller] # "none" /\ stopChanOpen
  /\ stopChanOpen' = FALSE
  /\ UNCHANGED << agMetrics, pollCountDelta, agMu, agPc, agBatch,
                  polls, reports, built, sent, agOther >>

\* pollMetrics: case <-ticker.C: runtime.ReadMemStats
PollTick ==
  /\ agPc[Poller] = "select" /\ polls < MaxPolls
  /\ agPc' = [agPc EXCEPT ![Poller] = "lock"]
  /\ UNCHANGED << agMetrics, pollCountDelta, agMu, stopChanOpen, agBatch,
                  polls, reports, built, sent, agOther >>

\* pollMetrics: a.mu.Lock()
PollLock ==
  /\ agPc[Poller] = "lock" /\ agMu = "none"
  /\ agMu' = Poller
  /\ agPc' = [agPc EXCEPT ![Poller] = "set"]
  /\ UNCHANGED << agMetrics, pollCountDelta, stopChanOpen, agBatch,
                  polls, reports, built, sent, agOther >>

\* a.metrics = []Metric{...}; a.pollCountDelta++; a.mu.Unlock()
PollSet ==
  /\ agPc[Poller] = "set"
  /\ agMetrics' = Sampled
  /\ pollCountDelta' = WrapAdd(pollCountDelta, 1)
  /\ polls' = polls + 1
  /\ agMu' = "none"
  /\ agPc' = [agPc EXCEPT ![Poller] = "select"]
  /\ UNCHANGED << stopChanOpen, agBatch, reports, built, sent, agOther >>

\* case <-a.stopChan: return, in pollMetrics and in reportMetrics
AgentExit(g) ==
  /\ agPc[g] = "select" /\ ~stopChanOpen
  /\ agPc' = [agPc EXCEPT ![g] = "exited"]
  /\ UNCHANGED << agMetrics, pollCountDelta, agMu, stopChanOpen, agBatch,
                  polls, reports, built, sent, agOther >>

\* reportMetrics: case <-ticker.C
ReportTick ==
  /\ agPc[Reporter] = "select" /\ reports < MaxReports
  /\ reports' = reports + 1
  /\ agPc' = [agPc EXCEPT ![Reporter] = "lock"]
  /\ UNCHANGED << agMetrics, pollCountDelta, agMu, stopChanOpen, agBatch,
                  polls, built, sent, agOther >>

\* reportMetrics: a.mu.Lock()
ReportLock ==
  /\ agPc[Reporter] = "lock" /\ agMu = "none"
  /\ agMu' = Reporter
  /\ agPc' = [agPc EXCEPT ![Reporter] = "take"]
  /\ UNCHANGED << agMetrics, pollCountDelta, stopChanOpen, agBatch,
                  polls, reports, built, sent, agOther >>

\* delta := a.pollCountDelta; a.pollCountDelta = 0;
\* a.metrics = append(a.metrics, Metric{"PollCount", counter, Sprintf("%d", delta)});
\* a.mu.Unlock()
ReportTake ==
  /\ agPc[Reporter] = "take"
  /\ agMetrics' = Append(agMetrics, Metric("PollCount", CounterType, FormatInt(pollCountDelta)))
  /\ pollCountDelta' = 0
  /\ agMu' = "none"
  /\ agPc' = [agPc EXCEPT ![Reporter] = "prepare_lock"]
  /\ UNCHANGED << stopChanOpen, agBatch, polls, reports, built, sent, agOther >>

\* prepareMetricsForBatch: a.mu.Lock(); defer a.mu.Unlock()
PrepareLock ==
  /\ agPc[Reporter] = "prepare_lock" /\ agMu = "none"
  /\ agMu' = Reporter
  /\ agPc' = [agPc EXCEPT ![Reporter] = "prepare"]
  /\ UNCHANGED << agMetrics, pollCountDelta, stopChanOpen, agBatch,
                  polls, reports, built, sent, agOther >>

\* the loop of prepareMetricsForBatch over a.metrics, and its return
prepareMetricsForBatch ==
  /\ agPc[Reporter] = "prepare"
  /\ agBatch' = BatchOf(agMetrics)
  /\ built' = Append(built, BatchOf(agMetrics))
  /\ agMu' = "none"
  /\ agPc' = [agPc EXCEPT ![Reporter] = "send"]
  /\ UNCHANGED << agMetrics, pollCountDelta, stopChanOpen, polls, reports, sent, agOther >>

\* err := a.sendMetricsBatch(batch): nil without a request for an empty
\* batch, else one POST to /updates/; on an error the same batch is sent
\* item by item
sendMetricsBatch ==
  /\ agPc[Reporter] = "send"
  /\ IF agBatch = << >>
     THEN agPc' = [agPc EXCEPT ![Reporter] = "select"] /\ sent' = sent
     ELSE /\ sent' = [sent EXCEPT !.batch = @ + 1]
          /\ \E failed \in BOOLEAN :
               agPc' = [agPc EXCEPT ![Reporter] = IF failed THEN "individually" ELSE "select"]
  /\ UNCHANGED << agMetrics, pollCountDelta, agMu, stopChanOpen, agBatch,
                  polls, reports, built, agOther >>

\* one POST to /update/ for every item of the batch; failures are logged
sendMetricsIndividually ==
  /\ agPc[Reporter] = "individually"
  /\ sent' = [sent EXCEPT !.single = @ + Len(agBatch)]
  /\ agPc' = [agPc EXCEPT ![Reporter] = "select"]
  /\ UNCHANGED << agMetrics, pollCountDelta, agMu, stopChanOpen, agBatch,
                  polls, reports, built, agOther >>

InitAgent ==
  /\ AgentIdle
  /\ NoStore /\ RetryIdle /\ rPred = {} /\ NoPG /\ SvcIdle

NextAgent ==
  \/ AgentRun \/ AgentStop
  \/ PollTick \/ PollLock \/ PollSet
  \/ ReportTick \/ ReportLock \/ ReportTake
  \/ PrepareLock \/ prepareMetricsForBatch
  \/ sendMetricsBatch \/ sendMetricsIndividually
  \/ \E g \in {Poller, Reporter} : AgentExit(g)

SpecAgent == InitAgent /\ [][NextAgent]_vars

\* the sum of the PollCount deltas of a batch, and of a sequence of batches
RECURSIVE PollCountOf(_)
PollCountOf(batch) ==
  IF batch = << >> THEN 0
  ELSE (IF batch[1].id = "PollCount" THEN batch[1].delta.v ELSE 0) + PollCountOf(Tail(batch))
RECURSIVE PollCountReported(_)
PollCountReported(batches) ==
  IF batches = << >> THEN 0
  ELSE PollCountOf(batches[1]) + PollCountReported(Tail(batches))

\* C38: PollCount accounting. Whenever reportMetrics is not in the middle of
\* a report, the PollCount deltas of all the batches built so far, plus the
\* pending pollCountDelta, add up to the number of polls performed: every
\* poll is in exactly one batch or still pending.
C38_PollCountAccounting ==
  agPc[Reporter] \in {"select", "exited"}
     => PollCountReported(built) + pollCountDelta = polls


(***************************************************************************)
(* Counter overflow in the volatile store.                                 *)
(***************************************************************************)
\* v is the int64 that is congruent to the exact sum modulo 2^64
Wraps(v, exact) == v \in MinInt64..MaxInt64 /\ (v - exact) % IntMod = 0

====
